---- MODULE Spec2Model ----
(***************************************************************************)
(* TCC bridge: the cloud client (internal/tcc: Session, Client), the poll  *)
(* tick of the sync engine (cmd/server: Service.pollTCC) and the login     *)
(* response classification, as state machines.                             *)
(*                                                                         *)
(* Time is counted in minutes.  A goroutine that calls into the client is  *)
(* a process with a program counter (pc), a stack of return labels and its *)
(* local variables; one action is one step between two accesses to shared  *)
(* state (a mutex-protected section, a limiter wait, an HTTP round trip).  *)
(***************************************************************************)
EXTENDS Integers, Sequences, FiniteSets, TLC

\* ---------------------------------------------------------------- bounds
\* The clock advances in steps of TickStep minutes up to MaxTime.
TickStep == 20
MaxTime == 40
\* The ticker of the polling loop is followed up to the minute MaxSched, and
\* the requests of one poll take up to MaxRoundTrip minutes.
MaxSched == 32
MaxRoundTrip == 1

\* ---------------------------------------------------- program constants
\* MinPollInterval = 10 * time.Minute
MinPollInterval == 10
\* loginExpiry: 30 * time.Minute
LoginExpiry == 30
\* rate.NewLimiter(rate.Every(time.Minute), 5): burst and refill per minute
Burst == 5
RefillPerMinute == 1
\* TCCPollInterval: 600, // 10 minutes
TCCPollInterval == 10
\* endpoints := []string{LocationsPath, ZoneListPath}
NumEndpoints == 2
\* time.Time{}: the zero time, year 1, further in the past than any interval
ZeroTime == -100000
\* http.StatusOK, http.StatusUnauthorized
StatusOK == 200
StatusUnauthorized == 401

Procs == {"poll", "web"}

Min(a, b) == IF a < b THEN a ELSE b

\* ------------------------------------------------------------ thermostat
\* tcc.ThermostatState, the fields the sync engine compares and persists; the
\* list endpoints give a device its name.
Dev(id, temp, mode) ==
    [DeviceID |-> id, Name |-> "Hall", CurrentTemp |-> temp, HeatSetpoint |-> 70,
     CoolSetpoint |-> 73, SystemMode |-> mode, Humidity |-> 40]

\* What a list endpoint's body can parse to (parseDeviceResponse's result).
RemoteLists ==
    { <<>>,
      << Dev(1, 67, "heat") >>,
      << Dev(1, 68, "heat") >>,
      << Dev(1, 67, "heat"), Dev(2, 67, "unknown") >> }


\* The device id a login redirect can carry (0: none).
RedirectDeviceIDs == {0, 1}

VARIABLES
    now,        \* the wall clock, minutes
    remote,     \* the devices the remote service reports
    session,    \* tcc.Session: username, password, authenticated, lastLogin, lastDeviceID
    tokens,     \* rate.Limiter: tokens in the bucket
    lastPoll,   \* Client.lastPoll
    devices,    \* Client.devices, the cached list
    proc,       \* per goroutine: pc, stack, locals and the record of its GetDevices call
    authOp,     \* history: the last Session operation that wrote the authenticated flag
    refreshed,  \* history: what RefreshSession re-stamped since the flag was last written
    unpaid,     \* history: an HTTP request was issued without a token of its own
    cmdDone,    \* history: a control submission succeeded and no GetDevices started since
    db,         \* storage: thermostat_state rows by device id
    tick,       \* history of the poll tick in progress
    lastTick,   \* history: the devices the previous successful poll tick processed
    lr,         \* a login response under classification
    lout,       \* the outcome Login gives that response
    hm,         \* handleMatterCommand: the command in hand and the history of its handling
    pbody,      \* a response body under parsing
    pout,       \* what the parser made of it
    ctxDone,    \* the server's context is cancelled
    tickerC,    \* runPollingLoop: a tick waits in the ticker's channel
    tickerAt,   \* runPollingLoop: when the ticker is due next
    rl,         \* runPollingLoop: where the loop is
    afterFail,  \* history: the tick in progress follows one that failed
    fin,        \* the argument of a function under evaluation
    fout,       \* its result
    th,         \* the bridge's ThermostatEndpoint, its endpoint and its calls
    lk,         \* the client's mutexes and each goroutine's place in their sections
    cachedFor,  \* history: the credentials the session held when the cached list was stored
    hub         \* the WebSocket hub, its clients and their connections

vars == << now, remote, session, tokens, lastPoll, devices, proc, authOp, refreshed, unpaid,
           cmdDone, db, tick, lastTick, lr, lout, hm, pbody, pout,
           ctxDone, tickerC, tickerAt, rl, afterFail, fin, fout, th, lk, cachedFor, hub >>

clientVars == << now, session, tokens, lastPoll, devices, proc, authOp, refreshed, unpaid, cmdDone >>
pollVars == << db, tick, lastTick >>
loginVars == << lr, lout >>
cmdVars == << hm >>
parseVars == << pbody, pout >>
loopVars == << tickerC, tickerAt, rl, afterFail >>
pureVars == << fin, fout >>
bridgeVars == << th >>
lockVars == << lk >>
cacheVars == << cachedFor >>
hubVars == << hub >>
\* what the client's own steps leave alone, but for the history of the cache
rest == << remote, db, tick, lastTick, lr, lout, hm, pbody, pout, ctxDone, tickerC, tickerAt, rl,
          afterFail, fin, fout, th, lk, hub >>
others == << rest, cachedFor >>

\* --------------------------------------------------------------- Session
\* the credentials of a session that was given none
NoCredentials == << "", "" >>

\* NewSession: no credentials, not authenticated, zero lastLogin.
NewSession ==
    [username |-> "", password |-> "", authenticated |-> FALSE,
     lastLogin |-> ZeroTime, lastDeviceID |-> 0]

\* the credentials replaced, the flag left as it is
SetCredentials_KeepsFlag(s, u, pw) == [s EXCEPT !.username = u, !.password = pw]

\* Session.SetCredentials
SetCredentials(s, u, pw) ==
    [s EXCEPT !.username = u, !.password = pw, !.authenticated = FALSE]

\* Session.IsAuthenticated at time t
IsAuthenticatedAt(s, t) ==
    IF ~s.authenticated THEN FALSE
    ELSE IF t - s.lastLogin > LoginExpiry THEN FALSE
    ELSE TRUE

IsAuthenticated == IsAuthenticatedAt(session, now)

\* the session left as it is
MarkAuthenticated_Noop(s) == s

\* Session.MarkAuthenticated
MarkAuthenticated(s) == [s EXCEPT !.authenticated = TRUE, !.lastLogin = now]

\* the flag left as it is
MarkUnauthenticated_KeepsFlag(s) == s

\* Session.MarkUnauthenticated
MarkUnauthenticated(s) == [s EXCEPT !.authenticated = FALSE]

\* the time re-stamped and the flag set
RefreshSession_SetsFlag(s) == [s EXCEPT !.authenticated = TRUE, !.lastLogin = now]

\* Session.RefreshSession
RefreshSession(s) == [s EXCEPT !.lastLogin = now]

\* what a RefreshSession now re-stamps: a session whose flag is cleared, one whose
\* flag is set but which has expired, or a valid one (the history is kept)
RefreshOf ==
    IF ~session.authenticated THEN "unauthenticated"
    ELSE IF ~IsAuthenticated THEN "expired"
    ELSE refreshed

\* the session left as it is
ClearSession_Noop(s) == s

\* Session.ClearSession
ClearSession(s) == [s EXCEPT !.authenticated = FALSE, !.lastLogin = ZeroTime]

\* Session.SetLastDeviceID
SetLastDeviceID(s, id) == [s EXCEPT !.lastDeviceID = id]

\* --------------------------------------------------------------- limiter
\* rate.Limiter: the bucket refills RefillPerMinute tokens a minute up to Burst.
Refill(t, minutes) == Min(Burst, t + minutes * RefillPerMinute)

\* ------------------------------------------------- login classification
\* The markers Login looks for with strings.Contains: a URL or a body is the
\* set of the markers it contains.
URLMarkers == {"/Error/", "TooManyAttempts", "/portal", "Login"}
AuthMarkers == {"LogoutLink", "Welcome", "SignOut", "Total Connect"}
FailMarkers == {"Login failed", "Invalid", "incorrect"}
LoginStatuses == {200, 401, 429, 500}
\* The statuses the device-detail and control endpoints answer with.
HTTPStatuses == {200, 401, 500}

Contains(str, marker) == marker \in str

\* Every response of the login POST after redirects: status, final URL, body.
AllLoginResponses ==
    [status : LoginStatuses, url : SUBSET URLMarkers,
     body : SUBSET (AuthMarkers \cup FailMarkers), deviceID : RedirectDeviceIDs]

\* The responses the process model draws from: one or two for each outcome.
ClientLoginResponses ==
    [status : {200, 500},
     url : { {"/portal"}, {"/portal", "Login"}, {"/portal", "/Error/", "TooManyAttempts"} },
     body : { {}, {"Invalid"} }, deviceID : {0}]
    \cup { [status |-> 200, url |-> {"/portal"}, body |-> {}, deviceID |-> 1] }

\* extractDeviceIDFromURL: the id of a /Device/Control/<id> URL, else 0
extractDeviceIDFromURL(r) == r.deviceID

\* Login, from "if resp.StatusCode == http.StatusOK" to its last return
ClassifyLogin(r) ==
    IF r.status = StatusOK
    THEN IF Contains(r.url, "/Error/")
         THEN IF Contains(r.url, "TooManyAttempts") THEN "rateLimited" ELSE "errorPage"
         ELSE IF Contains(r.url, "/portal") /\ ~Contains(r.url, "Login")
         THEN "success"
         ELSE IF \E m \in AuthMarkers : Contains(r.body, m)
         THEN "success"
         ELSE IF \E m \in FailMarkers : Contains(r.body, m)
         THEN "invalidCredentials"
         ELSE "unexpected"
    ELSE "unexpected"

\* ------------------------------------------------------------- processes
\* The record of a GetDevices call in progress: whether it started after a control
\* submission, performed a Login, found the cache fresh at its gate, and has issued
\* a request or taken a token so far; whether pollTCC called Login before it, and
\* whether its fallback GetDeviceData called Login; whether a list endpoint has
\* answered with a body that was parsed; and its data requests in their order,
\* each with the number of devices it gave.
NoGD ==
    [active |-> FALSE, afterCmd |-> FALSE, login |-> FALSE, freshGate |-> FALSE,
     req |-> FALSE, tok |-> FALSE, tickLogin |-> FALSE, ddLogin |-> FALSE, ans |-> FALSE,
     reqs |-> <<>>]

Idle ==
    [pc |-> "idle", stack |-> <<>>, ret |-> "none", resp |-> "none", rdev |-> 0, status |-> 0,
     devs |-> <<>>, ep |-> 0, out |-> <<>>, held |-> FALSE, deviceID |-> 0, gd |-> NoGD]

\* return r to the caller; the outermost call's frame is gone with its locals
Ret(pr, r) ==
    IF Head(pr.stack) = "done"
    THEN [Idle EXCEPT !.pc = "done", !.ret = r]
    ELSE [pr EXCEPT !.pc = Head(pr.stack), !.stack = Tail(pr.stack), !.ret = r]

\* call the function entered at label entry, to come back at label after
CallFrom(pr, entry, after) == [pr EXCEPT !.pc = entry, !.stack = <<after>> \o pr.stack]

\* an HTTP request leaves: it spends the token its limiter wait acquired
Request(pr) == [pr EXCEPT !.held = FALSE, !.gd.req = pr.gd.active \/ @]

\* The cache is non-empty and younger than MinPollInterval.
CacheFresh == now - lastPoll < MinPollInterval /\ devices # <<>>

\* GetDevices is entered: the record of this call
EnterGetDevices(pr) ==
    [pr EXCEPT !.gd = [NoGD EXCEPT !.active = TRUE, !.afterCmd = cmdDone]]

\* GetDevices returns r and the list out
LeaveGetDevices(pr, r, out) ==
    Ret([pr EXCEPT !.gd = NoGD, !.out = out, !.devs = <<>>, !.ep = 0], r)

\* The limiter waits of the client and the label each leads to.
AfterWait(l) ==
    CASE l = "L_wait1" -> "L_get"
      [] l = "L_wait2" -> "L_post"
      [] l = "GD_wait" -> "GD_fetch"
      [] l = "DD_wait" -> "DD_fetch"
      [] l = "SC_wait" -> "SC_post"

WaitLabels == {"L_wait1", "L_wait2", "GD_wait", "DD_wait", "SC_wait"}

\* the wait looking at the bucket only
WaitGranted_IgnoresCtx == tokens >= 1

\* rate.Limiter.Wait gives a token only while ctx is not done
WaitGranted == ~ctxDone /\ tokens >= 1

\* http.Client.Do under ctx gets a response only while ctx is not done
Responds == ~ctxDone

\* c.limiter.Wait(ctx): take a token when one is there, or fail when ctx is done
Wait(p) ==
    /\ proc[p].pc \in WaitLabels
    /\ \/ /\ WaitGranted
          /\ tokens' = tokens - 1
          /\ proc' = [proc EXCEPT ![p] = [@ EXCEPT !.pc = AfterWait(proc[p].pc), !.held = TRUE,
                                                   !.gd.tok = proc[p].gd.active \/ @]]
       \/ /\ tokens' = tokens
          /\ proc' = [proc EXCEPT ![p] =
                        IF @.pc = "GD_wait" THEN LeaveGetDevices(@, "errWait", <<>>)
                        ELSE Ret(@, "errWait")]
    /\ UNCHANGED << others, now, session, lastPoll, devices, authOp, refreshed, unpaid, cmdDone >>

\* ----------------------------------------------------------- Client.Login
\* only both empty count as missing
CredentialsMissing_Both(u, pw) == u = "" /\ pw = ""

\* GetCredentials and the check "credentials not set"
CredentialsMissing(u, pw) == u = "" \/ pw = ""

L_creds(p) ==
    /\ proc[p].pc = "L_creds"
    /\ proc' = [proc EXCEPT ![p] =
                  IF CredentialsMissing(session.username, session.password)
                  THEN Ret(@, "errNoCreds")
                  ELSE [@ EXCEPT !.pc = "L_wait1"]]
    /\ UNCHANGED << others, now, session, tokens, lastPoll, devices, authOp, refreshed, unpaid, cmdDone >>

\* GET the login page
L_get(p) ==
    /\ proc[p].pc = "L_get"
    /\ unpaid' = (unpaid \/ ~proc[p].held)
    /\ \/ proc' = [proc EXCEPT ![p] = Ret(Request(@), "errNet")]
       \/ /\ Responds
          /\ proc' = [proc EXCEPT ![p] = [Request(@) EXCEPT !.pc = "L_wait2"]]
    /\ UNCHANGED << others, now, session, tokens, lastPoll, devices, authOp, refreshed, cmdDone >>

\* POST the login form; the response is classified
L_post(p) ==
    /\ proc[p].pc = "L_post"
    /\ unpaid' = (unpaid \/ ~proc[p].held)
    /\ \/ proc' = [proc EXCEPT ![p] = Ret(Request(@), "errNet")]
       \/ \E r \in ClientLoginResponses :
            /\ Responds
            /\ proc' = [proc EXCEPT ![p] = [Request(@) EXCEPT !.pc = "L_handle",
                                              !.resp = ClassifyLogin(r),
                                              !.rdev = extractDeviceIDFromURL(r)]]
    /\ UNCHANGED << others, now, session, tokens, lastPoll, devices, authOp, refreshed, cmdDone >>

\* SetLastDeviceID when the URL carries one, MarkAuthenticated on success
L_handle(p) ==
    /\ proc[p].pc = "L_handle"
    /\ LET pr == proc[p]
           s1 == IF pr.rdev # 0 THEN SetLastDeviceID(session, pr.rdev) ELSE session
       IN IF pr.resp = "success"
          THEN /\ session' = MarkAuthenticated(s1)
               /\ authOp' = "MarkAuthenticated"
               /\ refreshed' = "none"
               /\ proc' = [proc EXCEPT ![p] = [Ret(@, "ok") EXCEPT !.resp = "none", !.rdev = 0]]
          ELSE /\ session' = s1
               /\ UNCHANGED << authOp, refreshed >>
               /\ proc' = [proc EXCEPT ![p] =
                             [Ret(@, pr.resp) EXCEPT !.resp = "none", !.rdev = 0]]
    /\ UNCHANGED << others, now, tokens, lastPoll, devices, unpaid, cmdDone >>

\* ------------------------------------------------------ Client.GetDevices
\* the gate asking for a second cached device
PollCacheHit_TwoDevices == now - lastPoll < MinPollInterval /\ Len(devices) > 1

\* the gate looking at the interval only
PollCacheHit_IntervalOnly == now - lastPoll < MinPollInterval

\* "time.Since(c.lastPoll) < MinPollInterval && len(c.devices) > 0"
PollCacheHit == now - lastPoll < MinPollInterval /\ Len(devices) > 0

\* the endpoint loop going to its request at once
NextEndpointPc_NoWait == "GD_fetch"

\* the top of the endpoint loop: every endpoint waits for the limiter first
NextEndpointPc == "GD_wait"

\* "if !c.session.IsAuthenticated() { Login }" of GetDevices
GD_auth(p) ==
    /\ proc[p].pc = "GD_auth"
    /\ proc' = [proc EXCEPT ![p] =
                  IF ~IsAuthenticated
                  THEN [CallFrom(@, "L_creds", "GD_afterLogin") EXCEPT !.gd.login = TRUE]
                  ELSE [@ EXCEPT !.pc = "GD_gate"]]
    /\ UNCHANGED << others, now, session, tokens, lastPoll, devices, authOp, refreshed, unpaid, cmdDone >>

GD_afterLogin(p) ==
    /\ proc[p].pc = "GD_afterLogin"
    /\ proc' = [proc EXCEPT ![p] =
                  IF proc[p].ret = "ok" THEN [@ EXCEPT !.pc = "GD_gate"]
                  ELSE LeaveGetDevices(@, "errLogin", <<>>)]
    /\ UNCHANGED << others, now, session, tokens, lastPoll, devices, authOp, refreshed, unpaid, cmdDone >>

\* the poll-interval check under pollMu
GD_gate(p) ==
    /\ proc[p].pc = "GD_gate"
    /\ proc' = [proc EXCEPT ![p] =
                  IF PollCacheHit
                  THEN [@ EXCEPT !.pc = "GD_cached", !.gd.freshGate = CacheFresh]
                  ELSE [@ EXCEPT !.pc = NextEndpointPc, !.devs = <<>>, !.ep = 1,
                                 !.gd.freshGate = CacheFresh]]
    /\ UNCHANGED << others, now, session, tokens, lastPoll, devices, authOp, refreshed, unpaid, cmdDone >>

\* "return c.devices, nil" under devicesMu.RLock
GD_cached(p) ==
    /\ proc[p].pc = "GD_cached"
    /\ proc' = [proc EXCEPT ![p] = LeaveGetDevices(@, "ok", devices)]
    /\ UNCHANGED << others, now, session, tokens, lastPoll, devices, authOp, refreshed, unpaid, cmdDone >>

\* the list with the zone endpoint first
endpoints_ZoneFirst == << "ZoneListPath", "LocationsPath" >>

\* "endpoints := []string{LocationsPath, ZoneListPath}"
endpoints == << "LocationsPath", "ZoneListPath" >>

\* the data request to path that gave n devices is added to the call's record
Asked(pr, path, n) ==
    [pr EXCEPT !.gd.reqs = IF pr.gd.active THEN Append(@, [path |-> path, n |-> n]) ELSE @]

\* one list endpoint: a request that failed or was redirected to the error or
\* login page goes on to the next endpoint ("continue"), and so does an empty
\* parse; a non-empty parse ends the loop
GD_fetch(p) ==
    /\ proc[p].pc = "GD_fetch"
    /\ unpaid' = (unpaid \/ ~proc[p].held)
    /\ LET endpoint == endpoints[proc[p].ep]
           pr == Request(proc[p])
           next == IF pr.ep < NumEndpoints THEN NextEndpointPc ELSE "GD_fallback"
       IN \/ proc' = [proc EXCEPT ![p] =
                         [Asked(pr, endpoint, 0) EXCEPT !.pc = next, !.ep = pr.ep + 1]]
          \/ \E d \in {<<>>, remote} :
               /\ Responds
               /\ proc' = [proc EXCEPT ![p] =
                             IF Len(d) > 0
                             THEN [Asked(pr, endpoint, Len(d))
                                     EXCEPT !.pc = "GD_fallback", !.devs = d, !.gd.ans = TRUE]
                             ELSE [Asked(pr, endpoint, 0)
                                     EXCEPT !.pc = next, !.ep = pr.ep + 1, !.devs = d,
                                            !.gd.ans = TRUE]]
    /\ UNCHANGED << others, now, session, tokens, lastPoll, devices, authOp, refreshed, cmdDone >>

\* the fallback to the device id of the login redirect
GD_fallback(p) ==
    /\ proc[p].pc = "GD_fallback"
    /\ LET lastDeviceID == session.lastDeviceID
       IN proc' = [proc EXCEPT ![p] =
                     IF Len(proc[p].devs) = 0 /\ lastDeviceID # 0
                     THEN [CallFrom(@, "DD_auth", "GD_afterDD") EXCEPT !.deviceID = lastDeviceID]
                     ELSE [@ EXCEPT !.pc = "GD_store"]]
    /\ UNCHANGED << others, now, session, tokens, lastPoll, devices, authOp, refreshed, unpaid, cmdDone >>

GD_afterDD(p) ==
    /\ proc[p].pc = "GD_afterDD"
    /\ proc' = [proc EXCEPT ![p] =
                  [@ EXCEPT !.pc = "GD_store",
                            !.devs = IF proc[p].ret = "ok" THEN proc[p].devs \o proc[p].out
                                     ELSE proc[p].devs,
                            !.out = <<>>, !.deviceID = 0]]
    /\ UNCHANGED << others, now, session, tokens, lastPoll, devices, authOp, refreshed, unpaid, cmdDone >>

\* "c.devices = devices" under devicesMu
GD_store(p) ==
    /\ proc[p].pc = "GD_store"
    /\ devices' = proc[p].devs
    /\ cachedFor' = << session.username, session.password >>
    /\ proc' = [proc EXCEPT ![p] = [@ EXCEPT !.pc = "GD_stamp"]]
    /\ UNCHANGED << rest, now, session, tokens, lastPoll, authOp, refreshed, unpaid, cmdDone >>

\* "c.lastPoll = time.Now()" under pollMu
GD_stamp(p) ==
    /\ proc[p].pc = "GD_stamp"
    /\ lastPoll' = now
    /\ proc' = [proc EXCEPT ![p] = [@ EXCEPT !.pc = "GD_refresh"]]
    /\ UNCHANGED << others, now, session, tokens, devices, authOp, refreshed, unpaid, cmdDone >>

\* "c.session.RefreshSession(); return devices, nil"
GD_refresh(p) ==
    /\ proc[p].pc = "GD_refresh"
    /\ session' = RefreshSession(session)
    /\ refreshed' = RefreshOf
    /\ proc' = [proc EXCEPT ![p] = LeaveGetDevices(@, "ok", proc[p].devs)]
    /\ UNCHANGED << others, now, tokens, lastPoll, devices, authOp, unpaid, cmdDone >>

\* --------------------------------------------------- Client.GetDeviceData
\* what the device-detail endpoint reports for device id: the remote devices with
\* that id, else a body with zero values (uiData absent)
RemoteDetails(id) ==
    IF \E i \in 1..Len(remote) : remote[i].DeviceID = id
    THEN { remote[i] : i \in { j \in 1..Len(remote) : remote[j].DeviceID = id } }
    ELSE { [DeviceID |-> id, Name |-> "", CurrentTemp |-> 0, HeatSetpoint |-> 0, CoolSetpoint |-> 0,
            SystemMode |-> "emergency", Humidity |-> 0] }

\* the ThermostatState GetDeviceData builds from the uiData of the response:
\* the literal sets no Name
DetailState(id, d) == [d EXCEPT !.DeviceID = id, !.Name = ""]

DD_auth(p) ==
    /\ proc[p].pc = "DD_auth"
    /\ proc' = [proc EXCEPT ![p] =
                  IF ~IsAuthenticated
                  THEN [CallFrom(@, "L_creds", "DD_afterLogin")
                          EXCEPT !.gd.ddLogin = proc[p].gd.active]
                  ELSE [@ EXCEPT !.pc = "DD_wait"]]
    /\ UNCHANGED << others, now, session, tokens, lastPoll, devices, authOp, refreshed, unpaid, cmdDone >>

DD_afterLogin(p) ==
    /\ proc[p].pc = "DD_afterLogin"
    /\ proc' = [proc EXCEPT ![p] =
                  IF proc[p].ret = "ok" THEN [@ EXCEPT !.pc = "DD_wait"]
                  ELSE Ret(@, "errLogin")]
    /\ UNCHANGED << others, now, session, tokens, lastPoll, devices, authOp, refreshed, unpaid, cmdDone >>

\* GET the device-detail endpoint
DD_fetch(p) ==
    /\ proc[p].pc = "DD_fetch"
    /\ unpaid' = (unpaid \/ ~proc[p].held)
    /\ \/ proc' = [proc EXCEPT ![p] = Ret(Asked(Request(@), "DeviceDataPath", 0), "errNet")]
       \/ \E st \in HTTPStatuses :
            /\ Responds
            /\ proc' = [proc EXCEPT ![p] = [Asked(Request(@), "DeviceDataPath", 0)
                                              EXCEPT !.pc = "DD_handle", !.status = st]]
    /\ UNCHANGED << others, now, session, tokens, lastPoll, devices, authOp, refreshed, cmdDone >>

\* 401: MarkUnauthenticated and "session expired"; else parse, RefreshSession
DD_handle(p) ==
    /\ proc[p].pc = "DD_handle"
    /\ IF proc[p].status = StatusUnauthorized
       THEN /\ session' = MarkUnauthenticated(session)
            /\ authOp' = "MarkUnauthenticated"
            /\ refreshed' = "none"
            /\ proc' = [proc EXCEPT ![p] = [Ret(@, "errSessionExpired") EXCEPT !.status = 0]]
       ELSE \/ /\ proc' = [proc EXCEPT ![p] = [Ret(@, "errParse") EXCEPT !.status = 0]]
               /\ UNCHANGED << session, authOp, refreshed >>
            \/ /\ \E d \in RemoteDetails(proc[p].deviceID) :
                    proc' = [proc EXCEPT ![p] =
                               Ret([@ EXCEPT !.status = 0,
                                      !.out = << DetailState(proc[p].deviceID, d) >>], "ok")]
               /\ session' = RefreshSession(session)
               /\ refreshed' = RefreshOf
               /\ UNCHANGED authOp
    /\ UNCHANGED << others, now, tokens, lastPoll, devices, unpaid, cmdDone >>

\* --------------------------------------------------- Client.submitControl
SC_auth(p) ==
    /\ proc[p].pc = "SC_auth"
    /\ proc' = [proc EXCEPT ![p] =
                  IF ~IsAuthenticated THEN CallFrom(@, "L_creds", "SC_afterLogin")
                  ELSE [@ EXCEPT !.pc = "SC_wait"]]
    /\ UNCHANGED << others, now, session, tokens, lastPoll, devices, authOp, refreshed, unpaid, cmdDone >>

SC_afterLogin(p) ==
    /\ proc[p].pc = "SC_afterLogin"
    /\ proc' = [proc EXCEPT ![p] =
                  IF proc[p].ret = "ok" THEN [@ EXCEPT !.pc = "SC_wait"]
                  ELSE Ret(@, "errLogin")]
    /\ UNCHANGED << others, now, session, tokens, lastPoll, devices, authOp, refreshed, unpaid, cmdDone >>

\* POST the control request
SC_post(p) ==
    /\ proc[p].pc = "SC_post"
    /\ unpaid' = (unpaid \/ ~proc[p].held)
    /\ \/ proc' = [proc EXCEPT ![p] = Ret(Request(@), "errNet")]
       \/ \E st \in HTTPStatuses :
            /\ Responds
            /\ proc' = [proc EXCEPT ![p] = [Request(@) EXCEPT !.pc = "SC_handle", !.status = st]]
    /\ UNCHANGED << others, now, session, tokens, lastPoll, devices, authOp, refreshed, cmdDone >>

\* every status but 401 taken for success
ControlAccepted_Any(status) == TRUE

\* "resp.StatusCode != http.StatusOK" is the failure
ControlAccepted(status) == status = StatusOK

\* 401: MarkUnauthenticated; not 200: "control request failed"; 200: RefreshSession
SC_handle(p) ==
    /\ proc[p].pc = "SC_handle"
    /\ IF proc[p].status = StatusUnauthorized
       THEN /\ session' = MarkUnauthenticated(session)
            /\ authOp' = "MarkUnauthenticated"
            /\ refreshed' = "none"
            /\ proc' = [proc EXCEPT ![p] = [Ret(@, "errSessionExpired") EXCEPT !.status = 0]]
       ELSE IF ~ControlAccepted(proc[p].status)
       THEN /\ proc' = [proc EXCEPT ![p] = [Ret(@, "errStatus") EXCEPT !.status = 0]]
            /\ UNCHANGED << session, authOp, refreshed >>
       ELSE /\ session' = RefreshSession(session)
            /\ refreshed' = RefreshOf
            /\ proc' = [proc EXCEPT ![p] = [@ EXCEPT !.pc = "SC_clear", !.status = 0]]
            /\ UNCHANGED authOp
    /\ UNCHANGED << others, now, tokens, lastPoll, devices, unpaid, cmdDone >>

\* "c.lastPoll = time.Time{}" under pollMu, and return nil
SC_clear(p) ==
    /\ proc[p].pc = "SC_clear"
    /\ lastPoll' = ZeroTime
    /\ cmdDone' = TRUE
    /\ proc' = [proc EXCEPT ![p] = Ret(@, "ok")]
    /\ UNCHANGED << others, now, session, tokens, devices, authOp, refreshed, unpaid >>

\* -------------------------------------------------- Client.TestConnection
\* ClearSession, then Login
TC_clear(p) ==
    /\ proc[p].pc = "TC_clear"
    /\ session' = ClearSession(session)
    /\ authOp' = "ClearSession"
    /\ refreshed' = "none"
    /\ proc' = [proc EXCEPT ![p] = CallFrom(@, "L_creds", "TC_afterLogin")]
    /\ UNCHANGED << others, now, tokens, lastPoll, devices, unpaid, cmdDone >>

\* Login failed: return its error; else GetDevices
TC_afterLogin(p) ==
    /\ proc[p].pc = "TC_afterLogin"
    /\ IF proc[p].ret = "ok"
       THEN /\ proc' = [proc EXCEPT ![p] = EnterGetDevices(CallFrom(@, "GD_auth", "TC_afterGD"))]
            /\ cmdDone' = FALSE
       ELSE /\ proc' = [proc EXCEPT ![p] = Ret(@, proc[p].ret)]
            /\ UNCHANGED cmdDone
    /\ UNCHANGED << others, now, session, tokens, lastPoll, devices, authOp, refreshed, unpaid >>

TC_afterGD(p) ==
    /\ proc[p].pc = "TC_afterGD"
    /\ proc' = [proc EXCEPT ![p] = Ret(@, proc[p].ret)]
    /\ UNCHANGED << others, now, session, tokens, lastPoll, devices, authOp, refreshed, unpaid, cmdDone >>

\* ------------------------------------------------------------ the callers
\* The credentials a caller of SetCredentials can give.
Credentials == { <<"", "secret">>, <<"user", "">>, <<"user", "secret">> }

\* the poll loop calls Login (pollTCC, when not authenticated)
CallLogin(p) ==
    /\ proc[p].pc = "idle"
    /\ proc' = [proc EXCEPT ![p] = CallFrom(@, "L_creds", "done")]
    /\ UNCHANGED << others, now, session, tokens, lastPoll, devices, authOp, refreshed, unpaid, cmdDone >>

\* the poll loop calls GetDevices
CallGetDevices(p) ==
    /\ proc[p].pc = "idle"
    /\ proc' = [proc EXCEPT ![p] = EnterGetDevices(CallFrom(@, "GD_auth", "done"))]
    /\ cmdDone' = FALSE
    /\ UNCHANGED << others, now, session, tokens, lastPoll, devices, authOp, refreshed, unpaid >>

\* a request handler calls Client.SetCredentials
CallSetCredentials(p) ==
    /\ proc[p].pc = "idle"
    /\ \E c \in Credentials : session' = SetCredentials(session, c[1], c[2])
    /\ authOp' = "SetCredentials"
    /\ refreshed' = "none"
    /\ UNCHANGED << others, now, tokens, lastPoll, devices, proc, unpaid, cmdDone >>

\* a request handler calls Client.TestConnection
CallTestConnection(p) ==
    /\ proc[p].pc = "idle"
    /\ proc' = [proc EXCEPT ![p] = CallFrom(@, "TC_clear", "done")]
    /\ UNCHANGED << others, now, session, tokens, lastPoll, devices, authOp, refreshed, unpaid, cmdDone >>

\* The credentials a request to test can carry: those of Credentials and a
\* wrong password.
TestedCredentials == Credentials \cup { <<"user", "wrong">> }

\* handleTestCredentials: the request's credentials are set on the service's
\* client, and TestConnection is called
CallTestCredentials(p) ==
    /\ proc[p].pc = "idle"
    /\ \E c \in TestedCredentials : session' = SetCredentials(session, c[1], c[2])
    /\ authOp' = "SetCredentials"
    /\ refreshed' = "none"
    /\ proc' = [proc EXCEPT ![p] = CallFrom(@, "TC_clear", "done")]
    /\ UNCHANGED << others, now, tokens, lastPoll, devices, unpaid, cmdDone >>

\* The accounts a request to save credentials can name.
Accounts == { <<"user", "secret">>, <<"other", "secret">> }

\* handleSaveCredentials: the request's credentials, neither part empty, are
\* saved and set on the service's client
CallSaveCredentials(p) ==
    /\ proc[p].pc = "idle"
    /\ \E c \in Accounts :
         /\ ~CredentialsMissing(c[1], c[2])
         /\ session' = SetCredentials(session, c[1], c[2])
    /\ authOp' = "SetCredentials"
    /\ refreshed' = "none"
    /\ UNCHANGED << others, now, tokens, lastPoll, devices, proc, unpaid, cmdDone >>

\* a handler calls SetHeatSetpoint, SetCoolSetpoint or SetSystemMode: submitControl
CallSubmitControl(p) ==
    /\ proc[p].pc = "idle"
    /\ proc' = [proc EXCEPT ![p] = CallFrom(@, "SC_auth", "done")]
    /\ UNCHANGED << others, now, session, tokens, lastPoll, devices, authOp, refreshed, unpaid, cmdDone >>

\* a handler calls GetDeviceData
CallGetDeviceData(p) ==
    /\ proc[p].pc = "idle"
    /\ proc' = [proc EXCEPT ![p] = [CallFrom(@, "DD_auth", "done") EXCEPT !.deviceID = 1]]
    /\ UNCHANGED << others, now, session, tokens, lastPoll, devices, authOp, refreshed, unpaid, cmdDone >>

\* the call has returned to its caller, which goes on
Finish(p) ==
    /\ proc[p].pc = "done"
    /\ proc' = [proc EXCEPT ![p] = Idle]
    /\ UNCHANGED << others, now, session, tokens, lastPoll, devices, authOp, refreshed, unpaid, cmdDone >>

\* minutes pass; the limiter's bucket refills
Tick(minutes) ==
    /\ now + minutes <= MaxTime
    /\ now' = now + minutes
    /\ tokens' = Refill(tokens, minutes)
    /\ UNCHANGED << others, session, lastPoll, devices, proc, authOp, refreshed, unpaid, cmdDone >>

\* ------------------------------------------------------------- the client
InitClient ==
    /\ now = 0
    /\ session = NewSession
    /\ tokens = Burst
    /\ lastPoll = ZeroTime
    /\ devices = <<>>
    /\ proc = [p \in Procs |-> Idle]
    /\ authOp = "NewSession"
    /\ refreshed = "none"
    /\ unpaid = FALSE
    /\ cmdDone = FALSE

\* ------------------------------------------------------- function values
\* a float64 temperature is a whole number of units of 1/10000 of a degree
Unit == 10000

\* the float64 of a whole number of degrees
Deg(d) == d * Unit

\* the float64 quotient a / b, rounded to the nearest unit
RoundDiv(a, b) == (2 * a + b) \div (2 * b)

\* no function under evaluation
NoArg == [kind |-> "none"]

\* not evaluated yet
NoResult == [done |-> FALSE]

\* ---------------------------------------- ThermostatEndpoint (the bridge)
\* The calls of updateState that can be in progress at once.
Pushes == {1, 2}

\* "Math.round(celsius * 100)", on whole degrees
celsiusToMatter(celsius) == celsius * 100

\* "matter / 100", on whole degrees
matterToCelsius(matter) == matter \div 100

\* Thermostat.SystemMode of a mode string
systemModeToMatter(mode) ==
    CASE mode = "heat" -> "Heat"
      [] mode = "cool" -> "Cool"
      [] mode = "auto" -> "Auto"
      [] OTHER -> "Off"

\* the mode string of a Thermostat.SystemMode
matterToSystemMode(mode) ==
    CASE mode = "Heat" -> "heat"
      [] mode = "Cool" -> "cool"
      [] mode = "Auto" -> "auto"
      [] OTHER -> "off"

\* The states the engine posts to /state.
PushedStates ==
    [currentTemp : {21}, heatSetpoint : {20, 21}, coolSetpoint : {24},
     systemMode : {"off", "heat"}]

\* The attribute writes of a controller: the attributes with a $Changed handler.
ExternalWrites ==
    ({"occupiedHeatingSetpoint"} \X {2000, 2100})
    \cup ({"occupiedCoolingSetpoint"} \X {2500})
    \cup ({"systemMode"} \X {"Off", "Heat"})

\* no notification yet
NoNotification == [attr |-> "none", from |-> "none", forwarded |-> FALSE]

\* the constructor: isUpdating false, the state and the endpoint's attributes
\* at their defaults; the command handler is set by the bridge's constructor
\* (index.ts), before any event.  Kept beside: the last event, where its
\* change came from and whether its handler called the command handler,
\* whether a set has thrown, and whether the last call of updateState was
\* given the state the adapter already held.
NewThermostatEndpoint ==
    [isUpdating |-> FALSE,
     commandHandler |-> TRUE,
     currentState |-> [currentTemp |-> 20, heatSetpoint |-> 20, coolSetpoint |-> 24,
                       systemMode |-> "off"],
     attrs |-> [localTemperature |-> celsiusToMatter(20),
                occupiedHeatingSetpoint |-> celsiusToMatter(20),
                occupiedCoolingSetpoint |-> celsiusToMatter(24),
                systemMode |-> "Off"],
     call |-> [i \in Pushes |-> [pc |-> "idle", updates |-> {}]],
     last |-> NoNotification,
     thrown |-> FALSE,
     again |-> FALSE]

\* "if (this.commandHandler && !this.isUpdating)"
Forwards(t) == t.commandHandler /\ ~t.isUpdating

\* the $Changed handler of one attribute runs on the value v, the change
\* coming from an endpoint.set of updateState or from a controller: it sets
\* the cached state and calls the command handler, or does nothing
Changed(t, attr, v, from) ==
    LET fw == Forwards(t)
        t1 == [t EXCEPT !.last = [attr |-> attr, from |-> from, forwarded |-> fw]]
    IN IF ~fw THEN t1
       ELSE CASE attr = "occupiedHeatingSetpoint" ->
                    [t1 EXCEPT !.currentState.heatSetpoint = matterToCelsius(v)]
              [] attr = "occupiedCoolingSetpoint" ->
                    [t1 EXCEPT !.currentState.coolSetpoint = matterToCelsius(v)]
              [] attr = "systemMode" ->
                    [t1 EXCEPT !.currentState.systemMode = matterToSystemMode(v)]

\* the events of the attributes in the set of writes ws whose value changes
\* fire, one attribute after the other
RECURSIVE Fire(_, _, _)
Fire(t, ws, from) ==
    IF ws = {} THEN t
    ELSE LET w == CHOOSE x \in ws : TRUE
             t1 == IF w[1] # "localTemperature" /\ t.attrs[w[1]] # w[2]
                   THEN Changed(t, w[1], w[2], from)
                   ELSE t
         IN Fire([t1 EXCEPT !.attrs[w[1]] = w[2]], ws \ {w}, from)

\* updateState writing every attribute, whatever the state before
Updates_Uncompared(prevState, state) ==
    { << "localTemperature", celsiusToMatter(state.currentTemp) >>,
      << "occupiedHeatingSetpoint", celsiusToMatter(state.heatSetpoint) >>,
      << "occupiedCoolingSetpoint", celsiusToMatter(state.coolSetpoint) >>,
      << "systemMode", systemModeToMatter(state.systemMode) >> }

\* the updates updateState collects: the values that differ from the state
\* of the call before
Updates(prevState, state) ==
    { w \in { << "localTemperature", celsiusToMatter(state.currentTemp) >>,
               << "occupiedHeatingSetpoint", celsiusToMatter(state.heatSetpoint) >>,
               << "occupiedCoolingSetpoint", celsiusToMatter(state.coolSetpoint) >>,
               << "systemMode", systemModeToMatter(state.systemMode) >> } :
        w[2] # CASE w[1] = "localTemperature" -> celsiusToMatter(prevState.currentTemp)
                 [] w[1] = "occupiedHeatingSetpoint" -> celsiusToMatter(prevState.heatSetpoint)
                 [] w[1] = "occupiedCoolingSetpoint" -> celsiusToMatter(prevState.coolSetpoint)
                 [] w[1] = "systemMode" -> systemModeToMatter(prevState.systemMode) }

\* the finally block leaving the flag set after a set that threw
FlagAfter_KeptOnThrow(outcome) == outcome = "thrown"

\* "finally { this.isUpdating = false; }": the flag after the try block,
\* whatever its outcome
FlagAfter(outcome) == FALSE

\* updateState is called: up to "await this.endpoint.set(...)", or to its end
\* when there is nothing to set
U_call(i, state) ==
    /\ th.call[i].pc = "idle"
    /\ LET updates == Updates(th.currentState, state)
       IN th' = [th EXCEPT !.currentState = state,
                           !.again = (state = th.currentState),
                           !.isUpdating = IF updates = {} THEN FlagAfter("none") ELSE TRUE,
                           !.call[i] = IF updates = {} THEN [pc |-> "idle", updates |-> {}]
                                       ELSE [pc |-> "set", updates |-> updates]]
    /\ UNCHANGED << remote, pollVars, loginVars, cmdVars, parseVars, pureVars, lockVars, cacheVars, hubVars, ctxDone, loopVars,
                    clientVars >>

\* endpoint.set commits and the events of the changed attributes fire, or it
\* throws; the call goes on after its await
U_set(i) ==
    /\ th.call[i].pc = "set"
    /\ \/ th' = [Fire(th, th.call[i].updates, "push")
                   EXCEPT !.call[i] = [pc |-> "set_ok", updates |-> {}]]
       \/ th' = [th EXCEPT !.call[i] = [pc |-> "set_thrown", updates |-> {}],
                           !.thrown = TRUE]
    /\ UNCHANGED << remote, pollVars, loginVars, cmdVars, parseVars, pureVars, lockVars, cacheVars, hubVars, ctxDone, loopVars,
                    clientVars >>

\* the rest of updateState: the catch block when set threw, and the finally block
U_finally(i) ==
    /\ th.call[i].pc \in {"set_ok", "set_thrown"}
    /\ th' = [th EXCEPT !.isUpdating =
                            FlagAfter(IF th.call[i].pc = "set_ok" THEN "ok" ELSE "thrown"),
                        !.call[i] = [pc |-> "idle", updates |-> {}]]
    /\ UNCHANGED << remote, pollVars, loginVars, cmdVars, parseVars, pureVars, lockVars, cacheVars, hubVars, ctxDone, loopVars,
                    clientVars >>

\* a controller writes an attribute: its $Changed event fires
E_write(w) ==
    /\ th.attrs[w[1]] # w[2]
    /\ th' = Fire(th, {w}, "external")
    /\ UNCHANGED << remote, pollVars, loginVars, cmdVars, parseVars, pureVars, lockVars, cacheVars, hubVars, ctxDone, loopVars,
                    clientVars >>

\* ------------------------------------------ the client's mutexes (Client)
\* The goroutines that call into the client at once: the polling loop and
\* the handlers of two requests.
Callers == {"poll", "web1", "web2"}

\* pollMu (sync.Mutex) and devicesMu (sync.RWMutex) are free, and no
\* goroutine is in GetDevices or submitControl
NoLocks ==
    [pollMu |-> "none", devicesMu |-> "none", readers |-> {},
     at |-> [g \in Callers |-> "out"]]

\* the goroutine g goes on to the place at, the mutexes being l's
Goes(l, g, at) ==
    /\ lk' = [l EXCEPT !.at[g] = at]
    /\ UNCHANGED << remote, pollVars, loginVars, cmdVars, parseVars, pureVars, bridgeVars, cacheVars, hubVars,
                    ctxDone, loopVars, clientVars >>

\* sync.Mutex.Lock on pollMu returns
LockPoll(l, g) == [l EXCEPT !.pollMu = g]

\* sync.RWMutex.Lock on devicesMu returns
LockDevices(l, g) == [l EXCEPT !.devicesMu = g]

\* GetDevices, "c.pollMu.Lock()" before the poll-interval check
K_gateLock(g) ==
    /\ lk.at[g] = "out"
    /\ lk.pollMu = "none"
    /\ Goes(LockPoll(lk, g), g, "gate")

\* "time.Since(c.lastPoll) < MinPollInterval && len(c.devices) > 0" has been
\* evaluated, to true or to false: "c.pollMu.Unlock()"
K_gateUnlock(g) ==
    /\ lk.at[g] = "gate"
    /\ \E hit \in BOOLEAN :
         Goes([lk EXCEPT !.pollMu = "none"], g, IF hit THEN "hit" ELSE "fetch")

\* "c.devicesMu.RLock(); defer c.devicesMu.RUnlock()"
K_cachedRLock(g) ==
    /\ lk.at[g] = "hit"
    /\ lk.devicesMu = "none"
    /\ Goes([lk EXCEPT !.readers = @ \cup {g}], g, "cached")

\* "return c.devices, nil", and the deferred RUnlock
K_cachedRUnlock(g) ==
    /\ lk.at[g] = "cached"
    /\ Goes([lk EXCEPT !.readers = @ \ {g}], g, "out")

\* the endpoints have been asked, or a limiter wait failed and GetDevices
\* returns its error: "c.devicesMu.Lock()"
K_storeLock(g) ==
    /\ lk.at[g] = "fetch"
    /\ \/ /\ lk.devicesMu = "none"
          /\ lk.readers = {}
          /\ Goes(LockDevices(lk, g), g, "store")
       \/ Goes(lk, g, "out")

\* "c.devices = devices" is done: "c.devicesMu.Unlock()"
K_storeUnlock(g) ==
    /\ lk.at[g] = "store"
    /\ Goes([lk EXCEPT !.devicesMu = "none"], g, "stored")

\* "c.pollMu.Lock()" before the stamp
K_stampLock(g) ==
    /\ lk.at[g] = "stored"
    /\ lk.pollMu = "none"
    /\ Goes(LockPoll(lk, g), g, "stamp")

\* "c.lastPoll = time.Now()" is done: "c.pollMu.Unlock()"
K_stampUnlock(g) ==
    /\ lk.at[g] = "stamp"
    /\ Goes([lk EXCEPT !.pollMu = "none"], g, "out")

\* submitControl, "c.pollMu.Lock()" after a control request that succeeded
K_clearLock(g) ==
    /\ lk.at[g] = "out"
    /\ lk.pollMu = "none"
    /\ Goes(LockPoll(lk, g), g, "clear")

\* "c.lastPoll = time.Time{}" is done: "c.pollMu.Unlock()"
K_clearUnlock(g) ==
    /\ lk.at[g] = "clear"
    /\ Goes([lk EXCEPT !.pollMu = "none"], g, "out")

\* The places where a goroutine reads and where it writes each field.
ReadsDevices(g) == lk.at[g] \in {"gate", "cached"}
WritesDevices(g) == lk.at[g] = "store"
ReadsLastPoll(g) == lk.at[g] = "gate"
WritesLastPoll(g) == lk.at[g] \in {"stamp", "clear"}

\* g holds devicesMu, for writing or for reading
HoldsDevicesMu(g) == lk.devicesMu = g \/ g \in lk.readers

\* ------------------------------------------------- the WebSocket hub (Hub)
\* The connections a browser opens.
Conns == {"c1", "c2"}

\* "make(chan interface{}, 256)": the buffers of a client's send channel and
\* of the hub's broadcast channel, scaled down
SendBuffer == 1
BroadcastBuffer == 2

\* NewHub, Run started: no client, no message; no connection made yet.  Kept
\* beside per connection: how often its send channel was closed and whether
\* a full buffer made the hub drop it, and whether a message was sent on a
\* closed channel.
NewHub ==
    [clients |-> {}, broadcast |-> 0, running |-> TRUE,
     conn |-> [c \in Conns |-> "none"],
     send |-> [c \in Conns |-> 0],
     closed |-> [c \in Conns |-> FALSE],
     closes |-> [c \in Conns |-> 0],
     dropped |-> [c \in Conns |-> FALSE],
     sentClosed |-> FALSE]

\* the other variables stay
HubStep ==
    UNCHANGED << remote, pollVars, loginVars, cmdVars, parseVars, pureVars, bridgeVars, lockVars,
                 cacheVars, ctxDone, loopVars, clientVars >>

\* "delete(h.clients, client); close(client.send)": closing a closed channel
\* panics, which the count of closes shows
Removed(h, c) ==
    [h EXCEPT !.clients = @ \ {c}, !.closed[c] = TRUE, !.closes[c] = Min(2, @ + 1)]

\* the unregister case closing without a look at the map
Unregistered_Unchecked(h, c) == Removed(h, c)

\* "if _, ok := h.clients[client]; ok { delete; close }"
Unregistered(h, c) == IF c \in h.clients THEN Removed(h, c) ELSE h

\* "select { case client.send <- message: default: close; delete }": a send
\* on a closed channel panics
Delivered(h, c) ==
    IF h.closed[c] THEN [h EXCEPT !.sentClosed = TRUE]
    ELSE IF h.send[c] < SendBuffer THEN [h EXCEPT !.send[c] = @ + 1]
    ELSE [Removed(h, c) EXCEPT !.dropped[c] = TRUE]

\* "for client := range h.clients"
RECURSIVE DeliveredAll(_, _)
DeliveredAll(h, cs) ==
    IF cs = {} THEN h
    ELSE LET c == CHOOSE x \in cs : TRUE
         IN DeliveredAll(Delivered(h, c), cs \ {c})

\* "for client := range h.clients { close(client.send); delete(...) }"
RECURSIVE RemovedAll(_, _)
RemovedAll(h, cs) ==
    IF cs = {} THEN h
    ELSE LET c == CHOOSE x \in cs : TRUE
         IN RemovedAll(Removed(h, c), cs \ {c})

\* handleWebSocket: the client is made and "s.hub.register <- client" waits
\* for Run to receive
W_connect(c) ==
    /\ hub.conn[c] = "none"
    /\ hub' = [hub EXCEPT !.conn[c] = "registering"]
    /\ HubStep

\* Run, "case client := <-h.register"; handleWebSocket goes on and starts the
\* two pumps
HubRegister(c) ==
    /\ hub.running
    /\ hub.conn[c] = "registering"
    /\ hub' = [hub EXCEPT !.clients = @ \cup {c}, !.conn[c] = "open"]
    /\ HubStep

\* readPump: ReadMessage fails, and the deferred "c.hub.unregister <- c"
\* waits for Run to receive
W_readFail(c) ==
    /\ hub.conn[c] = "open"
    /\ hub' = [hub EXCEPT !.conn[c] = "unregistering"]
    /\ HubStep

\* Run, "case client := <-h.unregister"
HubUnregister(c) ==
    /\ hub.running
    /\ hub.conn[c] = "unregistering"
    /\ hub' = [Unregistered(hub, c) EXCEPT !.conn[c] = "gone"]
    /\ HubStep

\* writePump takes a message from the send channel
W_write(c) ==
    /\ hub.conn[c] \in {"open", "unregistering", "gone"}
    /\ hub.send[c] > 0
    /\ hub' = [hub EXCEPT !.send[c] = @ - 1]
    /\ HubStep

\* Hub.Broadcast: the message goes into the broadcast channel, or is dropped
\* when the channel is full
Broadcast ==
    /\ hub' = [hub EXCEPT !.broadcast = IF @ < BroadcastBuffer THEN @ + 1 ELSE @]
    /\ HubStep

\* Run, "case message := <-h.broadcast"
HubBroadcast ==
    /\ hub.running
    /\ hub.broadcast > 0
    /\ hub' = DeliveredAll([hub EXCEPT !.broadcast = @ - 1], hub.clients)
    /\ HubStep

\* Run, "case <-ctx.Done()": every client closed and deleted, and Run returns
HubDone ==
    /\ hub.running
    /\ ctxDone
    /\ hub' = [RemovedAll(hub, hub.clients) EXCEPT !.running = FALSE]
    /\ HubStep

\* --------------------------------------------------------------- parsing
\* a body that is not a JSON array (an object, an HTML page)
NoBody == [kind |-> "other", elems |-> <<>>]

\* nothing parsed yet
NoParse == [done |-> FALSE, states |-> <<>>]

\* ------------------------------------------------------- control requests
\* tcc system switch positions
TCCModeEmergencyHeat == 0
TCCModeHeat == 1
TCCModeOff == 2
TCCModeCool == 3
TCCModeAuto == 4

SystemModeToTCC(mode) ==
    CASE mode = "emergency" -> TCCModeEmergencyHeat
      [] mode = "heat" -> TCCModeHeat
      [] mode = "off" -> TCCModeOff
      [] mode = "cool" -> TCCModeCool
      [] mode = "auto" -> TCCModeAuto
      [] OTHER -> TCCModeOff

\* a nil pointer field of ControlRequest: omitted from the JSON body
Nil == <<>>

\* a pointer to the value v
intPtr(v) == << v >>

\* tcc.ControlRequest with every optional field nil
ControlRequest(deviceID) ==
    [DeviceID |-> deviceID, SystemSwitch |-> Nil, HeatSetpoint |-> Nil, CoolSetpoint |-> Nil,
     HeatNextPeriod |-> Nil, CoolNextPeriod |-> Nil, StatusHeat |-> Nil, StatusCool |-> Nil,
     FanMode |-> Nil]

\* a heat setpoint request that also switches the system to heat
SetHeatSetpoint_WithMode(deviceID, temp) ==
    [ControlRequest(deviceID) EXCEPT !.HeatSetpoint = intPtr(temp), !.StatusHeat = intPtr(1),
                                     !.HeatNextPeriod = intPtr(0),
                                     !.SystemSwitch = intPtr(TCCModeHeat)]

\* the request Client.SetHeatSetpoint submits
SetHeatSetpoint(deviceID, temp) ==
    [ControlRequest(deviceID) EXCEPT !.HeatSetpoint = intPtr(temp), !.StatusHeat = intPtr(1),
                                     !.HeatNextPeriod = intPtr(0)]

\* the request Client.SetCoolSetpoint submits
SetCoolSetpoint(deviceID, temp) ==
    [ControlRequest(deviceID) EXCEPT !.CoolSetpoint = intPtr(temp), !.StatusCool = intPtr(1),
                                     !.CoolNextPeriod = intPtr(0)]

\* the request Client.SetSystemMode submits
SetSystemMode(deviceID, mode) ==
    [ControlRequest(deviceID) EXCEPT !.SystemSwitch = intPtr(SystemModeToTCC(mode))]

\* no request built
NoReq == ControlRequest(0)

\* matter.Command: action and a JSON value, a string or a number (float64);
\* the temperatures of the commands are 21.0 and 22.5 degrees Celsius
Commands ==
    { [Action |-> "setSystemMode", type |-> "string", Value |-> "cool"],
      [Action |-> "setSystemMode", type |-> "float64", Value |-> Deg(21)],
      [Action |-> "setHeatingSetpoint", type |-> "float64", Value |-> Deg(21)],
      [Action |-> "setHeatingSetpoint", type |-> "string", Value |-> "warm"],
      [Action |-> "setCoolingSetpoint", type |-> "float64", Value |-> Deg(45) \div 2],
      [Action |-> "setFanMode", type |-> "string", Value |-> "auto"] }

NoCommand == [Action |-> "none", type |-> "string", Value |-> ""]

\* no command handled yet
NoHM ==
    [cmd |-> NoCommand, deviceID |-> 0, oldState |-> {}, dbBefore |-> {}, req |-> NoReq,
     submitted |-> FALSE, fetched |-> <<>>, saved |-> <<>>, forwarded |-> <<>>,
     events |-> <<>>, result |-> "none"]

\* ----------------------------------------------- Client.parseDeviceResponse
\* the most elements of a JSON array, and the most zones of a location
MaxElems == 2

\* the positions read in the order of the storage enum
SystemModeFromTCC_StorageOrder(pos) ==
    CASE pos = 0 -> "off"
      [] pos = 1 -> "heat"
      [] pos = 2 -> "cool"
      [] pos = 3 -> "auto"
      [] pos = 4 -> "emergency"
      [] OTHER -> "unknown"

\* SystemModeFromTCC
SystemModeFromTCC(pos) ==
    CASE pos = TCCModeEmergencyHeat -> "emergency"
      [] pos = TCCModeHeat -> "heat"
      [] pos = TCCModeOff -> "off"
      [] pos = TCCModeCool -> "cool"
      [] pos = TCCModeAuto -> "auto"
      [] OTHER -> "unknown"

\* the sequences over S of length lo..hi
SeqsOf(S, lo, hi) == UNION { [1..n -> S] : n \in lo..hi }

\* JSON objects of the zone shape
ZoneObjects ==
    { [DeviceID |-> id, Name |-> "Hall", DispTemperature |-> 67, SystemSwitchPosition |-> pos,
       IndoorHumidity |-> h] : id \in {1, 2}, pos \in {1}, h \in {-5, 40, 128} }

\* JSON objects of the location shape, the zones nested under "Zones"
LocationObjects ==
    { [LocationID |-> 7, Name |-> "Home", Zones |-> zs] :
        zs \in SeqsOf({ z \in ZoneObjects : z.IndoorHumidity = 40 }, 0, MaxElems) }

\* the uiData objects of a device-detail body
UIDataObjects ==
    { [DispTemperature |-> 67, HeatSetpoint |-> 70, CoolSetpoint |-> 73,
       SystemSwitchPosition |-> pos, IndoorHumidity |-> h] :
        pos \in {1, 3, 9}, h \in {-5, 0, 40, 100, 128} }

\* the response bodies: JSON arrays of objects, a device-detail object, and
\* what is no JSON array at all
Bodies ==
    { [kind |-> "array", elems |-> e] : e \in SeqsOf(ZoneObjects, 0, MaxElems) }
    \cup { [kind |-> "array", elems |-> e] : e \in SeqsOf(LocationObjects, 1, MaxElems) }
    \cup { [kind |-> "detail", elems |-> << ui >>] : ui \in UIDataObjects }
    \cup { NoBody }

\* the value of a key of a JSON object, the zero value when the key is absent
Field(o, key, zero) == IF key \in DOMAIN o THEN o[key] ELSE zero

\* json.Unmarshal of one object into ZoneData: the keys ZoneData names are
\* taken, any other key is ignored, an absent key leaves the zero value
DecodeZone(o) ==
    [DeviceID |-> Field(o, "DeviceID", 0), Name |-> Field(o, "Name", ""),
     CurrentTemp |-> Field(o, "DispTemperature", 0),
     HeatSetpoint |-> Field(o, "HeatSetpoint", 0),
     CoolSetpoint |-> Field(o, "CoolSetpoint", 0),
     IndoorHumidity |-> Field(o, "IndoorHumidity", 0),
     SystemSwitchPos |-> Field(o, "SystemSwitchPosition", 0)]

\* json.Unmarshal(body, &zones): an error unless the body is a JSON array
UnmarshalZones(body) ==
    IF body.kind = "array"
    THEN [err |-> FALSE, v |-> [i \in 1..Len(body.elems) |-> DecodeZone(body.elems[i])]]
    ELSE [err |-> TRUE, v |-> <<>>]

\* json.Unmarshal of one object into LocationData
DecodeLocation(o) ==
    [LocationID |-> Field(o, "LocationID", 0), Name |-> Field(o, "Name", ""),
     Devices |-> LET zs == Field(o, "Zones", <<>>)
                 IN [i \in 1..Len(zs) |-> DecodeZone(zs[i])]]

\* json.Unmarshal(body, &locResp)
UnmarshalLocations(body) ==
    IF body.kind = "array"
    THEN [err |-> FALSE, v |-> [i \in 1..Len(body.elems) |-> DecodeLocation(body.elems[i])]]
    ELSE [err |-> TRUE, v |-> <<>>]

\* the ThermostatState built from a zone
ZoneState(z) ==
    [DeviceID |-> z.DeviceID, Name |-> z.Name, CurrentTemp |-> z.CurrentTemp,
     HeatSetpoint |-> z.HeatSetpoint, CoolSetpoint |-> z.CoolSetpoint,
     SystemMode |-> SystemModeFromTCC(z.SystemSwitchPos), Humidity |-> z.IndoorHumidity]

\* "for _, loc := range locResp { for _, z := range loc.Devices { append } }"
RECURSIVE LocationStates(_)
LocationStates(locs) ==
    IF locs = <<>> THEN <<>>
    ELSE [i \in 1..Len(Head(locs).Devices) |-> ZoneState(Head(locs).Devices[i])]
         \o LocationStates(Tail(locs))

\* the flat decode first, the nested decode second
parseDeviceResponse(body) ==
    LET zones == UnmarshalZones(body)
        locResp == UnmarshalLocations(body)
    IN IF ~zones.err /\ Len(zones.v) > 0
       THEN [i \in 1..Len(zones.v) |-> ZoneState(zones.v[i])]
       ELSE IF ~locResp.err /\ Len(locResp.v) > 0
       THEN LocationStates(locResp.v)
       ELSE <<>>

\* the ThermostatState GetDeviceData builds from latestData.uiData
DeviceDataState(deviceID, ui) ==
    [DeviceID |-> deviceID, Name |-> "", CurrentTemp |-> Field(ui, "DispTemperature", 0),
     HeatSetpoint |-> Field(ui, "HeatSetpoint", 0), CoolSetpoint |-> Field(ui, "CoolSetpoint", 0),
     SystemMode |-> SystemModeFromTCC(Field(ui, "SystemSwitchPosition", 0)),
     Humidity |-> Field(ui, "IndoorHumidity", 0)]

\* a list body is parsed
ParseList ==
    /\ ~pout.done
    /\ pbody.kind # "detail"
    /\ pout' = [done |-> TRUE, states |-> parseDeviceResponse(pbody)]
    /\ UNCHANGED << remote, pollVars, loginVars, cmdVars, pbody, pureVars, bridgeVars, lockVars, cacheVars, hubVars, ctxDone, loopVars, clientVars >>

\* a device-detail body is parsed
ParseDetail ==
    /\ ~pout.done
    /\ pbody.kind = "detail"
    /\ pout' = [done |-> TRUE, states |-> << DeviceDataState(1, pbody.elems[1]) >>]
    /\ UNCHANGED << remote, pollVars, loginVars, cmdVars, pbody, pureVars, bridgeVars, lockVars, cacheVars, hubVars, ctxDone, loopVars, clientVars >>

InitOthers ==
    /\ remote = << Dev(1, 67, "heat") >>
    /\ db = {}
    /\ tick = <<>>
    /\ lastTick = <<>>
    /\ lr = <<>>
    /\ lout = "none"
    /\ hm = NoHM
    /\ pbody = NoBody
    /\ pout = NoParse
    /\ fin = NoArg
    /\ fout = NoResult
    /\ th = NewThermostatEndpoint
    /\ lk = NoLocks
    /\ cachedFor = NoCredentials
    /\ hub = NewHub
    /\ ctxDone = FALSE
    /\ tickerC = FALSE
    /\ tickerAt = 0
    /\ rl = "initial"
    /\ afterFail = FALSE

\* ------------------------------------------------- storage and the bridge
\* storage.SystemMode
SystemModeOff == 0
SystemModeHeat == 1
SystemModeCool == 2
SystemModeAuto == 3
SystemModeEmergency == 4

ParseSystemMode(str) ==
    CASE str = "off" -> SystemModeOff
      [] str = "heat" -> SystemModeHeat
      [] str = "cool" -> SystemModeCool
      [] str = "auto" -> SystemModeAuto
      [] str = "emergency" -> SystemModeEmergency
      [] OTHER -> SystemModeOff

\* string(m) of an integer m: the string of the one code point m, not m's name
RuneString(m) ==
    CASE m = 0 -> "U+0000"
      [] m = 1 -> "U+0001"
      [] m = 2 -> "U+0002"
      [] m = 3 -> "U+0003"
      [] OTHER -> "U+0004"

\* the row of thermostat_state with this device_id: none or one
GetThermostatStateByDeviceID(id) == { st \in db : st.DeviceID = id }

\* INSERT ... ON CONFLICT(device_id) DO UPDATE
SaveThermostatState(rows, st) == { o \in rows : o.DeviceID # st.DeviceID } \cup {st}

\* the storage.ThermostatState pollTCC builds from a device
StorageState(device) ==
    [DeviceID |-> device.DeviceID, Name |-> device.Name, CurrentTemp |-> device.CurrentTemp,
     HeatSetpoint |-> device.HeatSetpoint, CoolSetpoint |-> device.CoolSetpoint,
     SystemMode |-> ParseSystemMode(device.SystemMode), Humidity |-> device.Humidity]

\* the comparison without "prevState == nil"
HasChanges_NoNilCheck(prevState, device) ==
    \E ps \in prevState :
        \/ ps.CurrentTemp # device.CurrentTemp
        \/ ps.HeatSetpoint # device.HeatSetpoint
        \/ ps.CoolSetpoint # device.CoolSetpoint
        \/ RuneString(ps.SystemMode) # device.SystemMode
        \/ ps.Humidity # device.Humidity

\* "hasChanges := prevState == nil || ..." with prevState none or one row
HasChanges(prevState, device) ==
    \/ prevState = {}
    \/ \E ps \in prevState :
         \/ ps.CurrentTemp # device.CurrentTemp
         \/ ps.HeatSetpoint # device.HeatSetpoint
         \/ ps.CoolSetpoint # device.CoolSetpoint
         \/ RuneString(ps.SystemMode) # device.SystemMode
         \/ ps.Humidity # device.Humidity

\* ------------------------------------------------------- Service.pollTCC
\* pollTCC is entered: Login when not authenticated, else GetDevices (the
\* caller's loop variables are the caller's to set)
P_start(p) ==
    /\ proc[p].pc = "idle"
    /\ tick' = <<>>
    /\ IF ~IsAuthenticated
       THEN /\ proc' = [proc EXCEPT ![p] = CallFrom(@, "L_creds", "P_afterLogin")]
            /\ UNCHANGED cmdDone
       ELSE /\ proc' = [proc EXCEPT ![p] = EnterGetDevices(CallFrom(@, "GD_auth", "P_afterGD"))]
            /\ cmdDone' = FALSE
    /\ UNCHANGED << remote, db, lastTick, loginVars, cmdVars, parseVars, pureVars, bridgeVars, lockVars, cacheVars, hubVars, ctxDone, now, session, tokens, lastPoll, devices,
                    authOp, refreshed, unpaid >>

\* The phrases pollTCC looks for in an error's text.
Phrases == {"rate_limited", "rate limit", "deadline exceeded", "connection refused"}

\* The texts err.Error() can have for an error of Login, each as the set of the
\* phrases it contains: "login rate limited: too many attempts, ...",
\* "rate limit wait: %w" around the context's error, "failed to get login page:
\* %w" or "failed to submit login: %w" around the transport's error, and the
\* other texts, which contain none of the phrases.
ErrorTexts(err) ==
    CASE err = "rateLimited" -> { {"rate limit"} }
      [] err = "errWait" -> { {"rate limit"}, {"rate limit", "deadline exceeded"} }
      [] err = "errNet" -> { {}, {"deadline exceeded"}, {"connection refused"} }
      [] OTHER -> { {} }

\* the event pollTCC logs for a Login that failed: "Rate limited by TCC API",
\* "Connection to TCC failed (timeout or network error)" or "Login failed: ..."
LoginLogKind(text) ==
    IF Contains(text, "rate_limited") THEN "rateLimited"
    ELSE IF Contains(text, "deadline exceeded") \/ Contains(text, "connection refused")
    THEN "connectionFailed"
    ELSE "loginFailed"

\* Login failed: an error event, and the tick is over; else GetDevices
P_afterLogin(p) ==
    /\ proc[p].pc = "P_afterLogin"
    /\ IF proc[p].ret # "ok"
       THEN /\ \E text \in ErrorTexts(proc[p].ret) :
                 tick' = << [kind |-> "error", stage |-> "login", err |-> proc[p].ret,
                             logged |-> LoginLogKind(text)] >>
            /\ lastTick' = <<>>
            /\ proc' = [proc EXCEPT ![p] = Idle]
            /\ UNCHANGED cmdDone
       ELSE /\ proc' = [proc EXCEPT ![p] =
                          [EnterGetDevices(CallFrom(@, "GD_auth", "P_afterGD"))
                             EXCEPT !.gd.tickLogin = TRUE]]
            /\ cmdDone' = FALSE
            /\ UNCHANGED << tick, lastTick >>
    /\ UNCHANGED << remote, db, loginVars, cmdVars, parseVars, pureVars, bridgeVars, lockVars, cacheVars, hubVars, ctxDone, loopVars, now, session, tokens, lastPoll, devices,
                    authOp, refreshed, unpaid >>

\* GetDevices failed: an error event, and the tick is over; else the device loop
P_afterGD(p) ==
    /\ proc[p].pc = "P_afterGD"
    /\ IF proc[p].ret # "ok"
       THEN /\ tick' = << [kind |-> "error", stage |-> "poll", err |-> proc[p].ret] >>
            /\ lastTick' = <<>>
            /\ proc' = [proc EXCEPT ![p] = Idle]
       ELSE /\ proc' = [proc EXCEPT ![p] = [@ EXCEPT !.pc = "P_loop"]]
            /\ UNCHANGED << tick, lastTick >>
    /\ UNCHANGED << remote, db, loginVars, cmdVars, parseVars, pureVars, bridgeVars, lockVars, cacheVars, hubVars, ctxDone, loopVars, now, session, tokens, lastPoll, devices,
                    authOp, refreshed, unpaid, cmdDone >>

\* one turn of "for _, device := range devices": read the snapshot, compare,
\* save, and when hasChanges log the change, UpdateState, log 'sent' on success
P_device(p) ==
    /\ proc[p].pc = "P_loop"
    /\ Len(tick) < Len(proc[p].out)
    /\ LET device == proc[p].out[Len(tick) + 1]
           prevState == GetThermostatStateByDeviceID(device.DeviceID)
           hasChanges == HasChanges(prevState, device)
       IN /\ db' = SaveThermostatState(db, StorageState(device))
          /\ \E updateOk \in BOOLEAN :
               tick' = Append(tick, [kind |-> "device", device |-> device, prevState |-> prevState,
                                     saves |-> 1, logged |-> hasChanges, forwarded |-> hasChanges,
                                     updated |-> hasChanges /\ updateOk,
                                     sent |-> hasChanges /\ updateOk])
    /\ UNCHANGED << remote, lastTick, loginVars, cmdVars, parseVars, pureVars, bridgeVars, lockVars, cacheVars, hubVars, ctxDone, loopVars, clientVars >>

\* the loop is over: pollTCC returns
P_return(p) ==
    /\ proc[p].pc = "P_loop"
    /\ Len(tick) = Len(proc[p].out)
    /\ lastTick' = tick
    /\ proc' = [proc EXCEPT ![p] = Idle]
    /\ UNCHANGED << remote, db, tick, loginVars, cmdVars, parseVars, pureVars, bridgeVars, lockVars, cacheVars, hubVars, ctxDone, loopVars, now, session, tokens, lastPoll, devices,
                    authOp, refreshed, unpaid, cmdDone >>

\* between two ticks the thermostats' readings change at the remote service
RemoteChange ==
    /\ proc["poll"].pc = "idle"
    /\ \E r \in RemoteLists \ {remote} : remote' = r
    /\ UNCHANGED << pollVars, loginVars, cmdVars, parseVars, pureVars, bridgeVars, lockVars, cacheVars, hubVars, ctxDone, loopVars, clientVars >>

\* ------------------------------------------------ Service.runPollingLoop
\* the tick that has just ended was abandoned on an error
TickFailed == Len(tick) = 1 /\ tick[1].kind = "error"

\* the loop giving up after a tick that failed
SelectDone_OnFailure == ctxDone \/ TickFailed

\* "case <-ctx.Done()" is ready
SelectDone == ctxDone

\* "s.pollTCC(ctx)", the initial poll
R_initial(p) ==
    /\ rl = "initial"
    /\ P_start(p)
    /\ rl' = "first"
    /\ UNCHANGED << tickerC, tickerAt, afterFail >>

\* the initial poll has returned: time.NewTicker, and the loop is at its select
R_newTicker(p) ==
    /\ rl = "first"
    /\ proc[p].pc = "idle"
    /\ rl' = "select"
    /\ tickerAt' = now + TCCPollInterval
    /\ UNCHANGED << remote, pollVars, loginVars, cmdVars, parseVars, pureVars, bridgeVars, lockVars, cacheVars, hubVars, ctxDone, tickerC, afterFail,
                    clientVars >>

\* the poll interval has passed: the ticker puts a tick in its channel, which
\* holds one
TickerFire ==
    /\ rl = "select"
    /\ ~tickerC
    /\ tickerC' = TRUE
    /\ UNCHANGED << remote, pollVars, loginVars, cmdVars, parseVars, pureVars, bridgeVars, lockVars, cacheVars, hubVars, ctxDone, tickerAt, rl, afterFail,
                    clientVars >>

\* the ticker's period has passed since it was made or was last due: a tick is
\* put in its channel, or dropped when one waits there already
TickerDue ==
    /\ rl = "select"
    /\ now = tickerAt
    /\ tickerC' = TRUE
    /\ tickerAt' = tickerAt + TCCPollInterval
    /\ UNCHANGED << remote, pollVars, loginVars, cmdVars, parseVars, pureVars, bridgeVars, lockVars, cacheVars, hubVars, ctxDone, rl, afterFail,
                    clientVars >>

\* The steps that wait for the remote service's response.
RoundTripLabels == {"L_get", "L_post", "GD_fetch", "DD_fetch"}

\* when the poll in progress began: the server's start for the initial poll,
\* the moment the ticker was last due for a tick
PollBegan == IF rl = "select" THEN tickerAt - TCCPollInterval ELSE 0

\* a minute passes while a request of the poll is on its way; a poll's
\* requests take MaxRoundTrip minutes together at most
RoundTrip(p) ==
    /\ proc[p].pc \in RoundTripLabels
    /\ now < PollBegan + MaxRoundTrip
    /\ Tick(1)

\* the loop waits at its select until the ticker is due
Sleep(p) ==
    /\ rl = "select"
    /\ proc[p].pc = "idle"
    /\ ~tickerC
    /\ now < tickerAt
    /\ tickerAt <= MaxSched
    /\ Tick(tickerAt - now)

\* "case <-ticker.C: s.pollTCC(ctx)"
R_tick(p) ==
    /\ rl = "select"
    /\ tickerC
    /\ P_start(p)
    /\ tickerC' = FALSE
    /\ afterFail' = TickFailed
    /\ UNCHANGED << tickerAt, rl >>

\* "case <-ctx.Done(): return"
R_done(p) ==
    /\ rl = "select"
    /\ proc[p].pc = "idle"
    /\ SelectDone
    /\ rl' = "returned"
    /\ UNCHANGED << remote, pollVars, loginVars, cmdVars, parseVars, pureVars, bridgeVars, lockVars, cacheVars, hubVars, ctxDone, tickerC, tickerAt, afterFail,
                    clientVars >>

\* the server is told to stop: cancel()
Cancel ==
    /\ ~ctxDone
    /\ ctxDone' = TRUE
    /\ UNCHANGED << remote, pollVars, loginVars, cmdVars, parseVars, pureVars, bridgeVars, lockVars, cacheVars, hubVars, loopVars, clientVars >>

\* -------------------------------------------- Service.handleMatterCommand
\* SystemMode.String
ModeString(m) ==
    CASE m = SystemModeOff -> "off"
      [] m = SystemModeHeat -> "heat"
      [] m = SystemModeCool -> "cool"
      [] m = SystemModeAuto -> "auto"
      [] m = SystemModeEmergency -> "emergency"
      [] OTHER -> "unknown"

\* the conversion without the offset of 32 degrees
CelsiusToFahrenheit_NoOffset(celsius) == RoundDiv(celsius * 9, 5)

\* "fahrenheit := celsius*9/5 + 32"
CelsiusToFahrenheit(celsius) == RoundDiv(celsius * 9, 5) + Deg(32)

\* the conversion with the quotient 5/9 taken between integers
fahrenheitToCelsius_IntDiv(f) == (f - Deg(32)) * (5 \div 9)

\* "return (f - 32) * 5 / 9"
fahrenheitToCelsius(f) == RoundDiv((f - Deg(32)) * 5, 9)

\* the matterState Bridge.UpdateState builds from a tcc.ThermostatState and
\* posts to the bridge
MatterState(state) ==
    [DeviceID     |-> state.DeviceID,
     CurrentTemp  |-> fahrenheitToCelsius(state.CurrentTemp),
     HeatSetpoint |-> fahrenheitToCelsius(state.HeatSetpoint),
     CoolSetpoint |-> fahrenheitToCelsius(state.CoolSetpoint),
     SystemMode   |-> state.SystemMode,
     Humidity     |-> state.Humidity,
     IsHeating    |-> state.IsHeating,
     IsCooling    |-> state.IsCooling]

\* the thermostat range, in whole degrees Fahrenheit
MinF == 40
MaxF == 99

\* every half degree of the range
Grid == { Deg(h) \div 2 : h \in (2 * MinF)..(2 * MaxF) }

\* the states UpdateState is called with
ForwardedStates ==
    [DeviceID : {1}, CurrentTemp : Grid, HeatSetpoint : {Deg(70), Deg(125) \div 2},
     CoolSetpoint : {Deg(73)}, SystemMode : {"heat", "unknown"},
     Humidity : {40, 128}, IsHeating : {FALSE}, IsCooling : {FALSE}]

\* Bridge.UpdateState builds the state it posts
UpdateState ==
    /\ fin.kind = "state"
    /\ ~fout.done
    /\ fout' = [done |-> TRUE, matter |-> MatterState(fin.state), back |-> <<>>]
    /\ UNCHANGED << remote, pollVars, loginVars, cmdVars, parseVars, fin, bridgeVars, lockVars, cacheVars, hubVars, ctxDone, loopVars,
                    clientVars >>

\* the temperature posted comes back as the Celsius value of a setpoint
\* command and the handler converts it
SetpointBack ==
    /\ fin.kind = "state"
    /\ fout.done
    /\ fout.back = <<>>
    /\ fout' = [fout EXCEPT !.back = << CelsiusToFahrenheit(fout.matter.CurrentTemp) >>]
    /\ UNCHANGED << remote, pollVars, loginVars, cmdVars, parseVars, fin, bridgeVars, lockVars, cacheVars, hubVars, ctxDone, loopVars,
                    clientVars >>

\* the largest switch position tried
MaxCode == 6

\* the switch positions SystemModeFromTCC is called with
Codes == (0 - 2)..MaxCode

\* the mode strings SystemModeToTCC is called with
ModeStrings == {"emergency", "heat", "off", "cool", "auto", "unknown", "fan"}

\* SystemModeFromTCC is called: on a switch position, or on the position
\* SystemModeToTCC gave
FromTCC ==
    /\ \/ /\ fin.kind = "code"
          /\ ~fout.done
          /\ fout' = [done |-> TRUE, mode |-> SystemModeFromTCC(fin.pos)]
       \/ /\ fin.kind = "mode"
          /\ fout.done
          /\ fout.mode = ""
          /\ fout' = [fout EXCEPT !.mode = SystemModeFromTCC(fout.code)]
    /\ UNCHANGED << remote, pollVars, loginVars, cmdVars, parseVars, fin, bridgeVars, lockVars, cacheVars, hubVars, ctxDone, loopVars,
                    clientVars >>

\* SystemModeToTCC is called on a mode string
ToTCC ==
    /\ fin.kind = "mode"
    /\ ~fout.done
    /\ fout' = [done |-> TRUE, code |-> SystemModeToTCC(fin.mode), mode |-> ""]
    /\ UNCHANGED << remote, pollVars, loginVars, cmdVars, parseVars, fin, bridgeVars, lockVars, cacheVars, hubVars, ctxDone, loopVars,
                    clientVars >>

\* the cases of "switch cmd.Action"
RecognizedActions == {"setSystemMode", "setHeatingSetpoint", "setCoolingSetpoint"}

\* the type assertion of the case: cmd.Value.(string) or cmd.Value.(float64)
ValueTypeOk(cmd) ==
    IF cmd.Action = "setSystemMode" THEN cmd.type = "string" ELSE cmd.type = "float64"

\* the request the case's client call submits
RequestOf(cmd, deviceID) ==
    CASE cmd.Action = "setHeatingSetpoint" ->
             SetHeatSetpoint(deviceID, CelsiusToFahrenheit(cmd.Value))
      [] cmd.Action = "setCoolingSetpoint" ->
             SetCoolSetpoint(deviceID, CelsiusToFahrenheit(cmd.Value))
      [] OTHER -> SetSystemMode(deviceID, cmd.Value)

\* the change event the case logs
EventOf(cmd, oldState) ==
    CASE cmd.Action = "setHeatingSetpoint" ->
             [type |-> "temp_change", kind |-> "heat",
              old |-> IF oldState = {} THEN 0
                      ELSE Deg((CHOOSE st \in oldState : TRUE).HeatSetpoint),
              new |-> CelsiusToFahrenheit(cmd.Value)]
      [] cmd.Action = "setCoolingSetpoint" ->
             [type |-> "temp_change", kind |-> "cool",
              old |-> IF oldState = {} THEN 0
                      ELSE Deg((CHOOSE st \in oldState : TRUE).CoolSetpoint),
              new |-> CelsiusToFahrenheit(cmd.Value)]
      [] OTHER ->
             [type |-> "mode_change", kind |-> "mode",
              old |-> IF oldState = {} THEN "unknown"
                      ELSE ModeString((CHOOSE st \in oldState : TRUE).SystemMode),
              new |-> cmd.Value]

\* the error of the case's client call is not looked at
MutationFailed_Never(r) == FALSE

\* the mutation of the case failed: "if err := s.tccClient.Set...; err != nil"
MutationFailed(r) == r # "ok"

\* a command arrives: GetThermostatState (nil without error when there is no
\* row, and "state.DeviceID" then panics), the old snapshot, and the switch up
\* to the case's client call
H_start(p) ==
    /\ proc[p].pc = "idle"
    /\ \E cmd \in Commands :
         IF db = {}
         THEN /\ hm' = [NoHM EXCEPT !.cmd = cmd, !.result = "panic"]
              /\ proc' = [proc EXCEPT ![p] = [Idle EXCEPT !.pc = "panic"]]
         ELSE \E state \in db :
                LET deviceID == state.DeviceID
                    oldState == GetThermostatStateByDeviceID(deviceID)
                    h == [NoHM EXCEPT !.cmd = cmd, !.deviceID = deviceID,
                                      !.oldState = oldState, !.dbBefore = db]
                    entered == CallFrom(proc[p], "H", "done")
                IN IF cmd.Action \notin RecognizedActions
                   THEN /\ hm' = [h EXCEPT !.result = "errUnknownCommand"]
                        /\ proc' = [proc EXCEPT ![p] = Ret(entered, "errUnknownCommand")]
                   ELSE IF ~ValueTypeOk(cmd)
                   THEN /\ hm' = [h EXCEPT !.result = "errValueType"]
                        /\ proc' = [proc EXCEPT ![p] = Ret(entered, "errValueType")]
                   ELSE /\ hm' = [h EXCEPT !.req = RequestOf(cmd, deviceID)]
                        /\ proc' = [proc EXCEPT ![p] = CallFrom(entered, "SC_auth", "H_afterSet")]
    /\ UNCHANGED << remote, pollVars, loginVars, parseVars, pureVars, bridgeVars, lockVars, cacheVars, hubVars, ctxDone, loopVars, now, session, tokens, lastPoll, devices,
                    authOp, refreshed, unpaid, cmdDone >>

\* the client call returned: its error is the handler's; else GetDeviceData
H_afterSet(p) ==
    /\ proc[p].pc = "H_afterSet"
    /\ IF MutationFailed(proc[p].ret)
       THEN /\ hm' = [hm EXCEPT !.result = proc[p].ret]
            /\ proc' = [proc EXCEPT ![p] = Ret(@, proc[p].ret)]
       ELSE /\ hm' = [hm EXCEPT !.submitted = proc[p].ret = "ok"]
            /\ proc' = [proc EXCEPT ![p] =
                          [CallFrom(@, "DD_auth", "H_afterGet") EXCEPT !.deviceID = hm.deviceID]]
    /\ UNCHANGED << remote, pollVars, loginVars, parseVars, pureVars, bridgeVars, lockVars, cacheVars, hubVars, ctxDone, loopVars, now, session, tokens, lastPoll, devices,
                    authOp, refreshed, unpaid, cmdDone >>

\* GetDeviceData returned: on success SaveThermostatState and UpdateState, on
\* failure a warning only; then the change event, and nil
H_afterGet(p) ==
    /\ proc[p].pc = "H_afterGet"
    /\ IF proc[p].ret = "ok"
       THEN LET updatedDevice == proc[p].out[1]
            IN /\ db' = SaveThermostatState(db, StorageState(updatedDevice))
               /\ hm' = [hm EXCEPT !.fetched = << updatedDevice >>,
                                   !.saved = << StorageState(updatedDevice) >>,
                                   !.forwarded = << updatedDevice >>,
                                   !.events = << EventOf(hm.cmd, hm.oldState) >>,
                                   !.result = "ok"]
       ELSE /\ db' = db
            /\ hm' = [hm EXCEPT !.events = << EventOf(hm.cmd, hm.oldState) >>,
                                !.result = "ok"]
    /\ proc' = [proc EXCEPT ![p] = Ret(@, "ok")]
    /\ UNCHANGED << remote, tick, lastTick, loginVars, parseVars, pureVars, bridgeVars, lockVars, cacheVars, hubVars, ctxDone, loopVars, now, session, tokens, lastPoll, devices,
                    authOp, refreshed, unpaid, cmdDone >>

HandlerSteps(p) == H_start(p) \/ H_afterSet(p) \/ H_afterGet(p)

\* ------------------------------------------- the classification by itself
Classify ==
    /\ lout = "none"
    /\ lout' = ClassifyLogin(lr)
    /\ UNCHANGED << remote, pollVars, lr, cmdVars, parseVars, pureVars, bridgeVars, lockVars, cacheVars, hubVars, ctxDone, loopVars, clientVars >>

\* One caller of the client's API, with no credentials set yet.
Init == InitClient /\ InitOthers

\* the steps of the client's functions
LoginSteps(p) == L_creds(p) \/ L_get(p) \/ L_post(p) \/ L_handle(p)

GetDevicesSteps(p) ==
    \/ GD_auth(p) \/ GD_afterLogin(p) \/ GD_gate(p) \/ GD_cached(p) \/ GD_fetch(p)
    \/ GD_fallback(p) \/ GD_afterDD(p) \/ GD_store(p) \/ GD_stamp(p) \/ GD_refresh(p)

GetDeviceDataSteps(p) == DD_auth(p) \/ DD_afterLogin(p) \/ DD_fetch(p) \/ DD_handle(p)

SubmitControlSteps(p) ==
    SC_auth(p) \/ SC_afterLogin(p) \/ SC_post(p) \/ SC_handle(p) \/ SC_clear(p)

TestConnectionSteps(p) == TC_clear(p) \/ TC_afterLogin(p) \/ TC_afterGD(p)

\* every operation of the client, called one after the other by one goroutine
Next ==
    \/ Tick(TickStep)
    \/ \E p \in {"web"} :
         \/ CallLogin(p) \/ CallGetDevices(p) \/ CallSetCredentials(p)
         \/ CallTestConnection(p) \/ CallSubmitControl(p) \/ CallGetDeviceData(p)
         \/ Finish(p) \/ Wait(p)
         \/ LoginSteps(p) \/ GetDevicesSteps(p) \/ GetDeviceDataSteps(p)
         \/ SubmitControlSteps(p) \/ TestConnectionSteps(p)

Spec == Init /\ [][Next]_vars

\* The server has started: the credentials of its configuration are set.
InitStarted ==
    /\ InitOthers
    /\ now = 0
    /\ session = SetCredentials(NewSession, "user", "secret")
    /\ tokens = Burst
    /\ lastPoll = ZeroTime
    /\ devices = <<>>
    /\ proc = [p \in Procs |-> Idle]
    /\ authOp = "SetCredentials"
    /\ refreshed = "none"
    /\ unpaid = FALSE
    /\ cmdDone = FALSE

\* The poll loop's GetDevices against a handler's control submission; the clock
\* is looked at before and after a wait longer than the login expiry.
NextRace ==
    \/ Tick(2 * TickStep)
    \/ CallGetDevices("poll")
    \/ CallSubmitControl("web")
    \/ \E p \in Procs :
         \/ Finish(p) \/ Wait(p)
         \/ LoginSteps(p) \/ GetDevicesSteps(p) \/ GetDeviceDataSteps(p)
         \/ SubmitControlSteps(p)

SpecRace == InitStarted /\ [][NextRace]_vars

\* The poll loop alone: tick after tick of pollTCC.
NextPoll ==
    \/ Tick(TickStep)
    \/ RemoteChange
    \/ \E p \in {"poll"} :
         \/ (P_start(p) /\ UNCHANGED loopVars)
         \/ P_afterLogin(p) \/ P_afterGD(p) \/ P_device(p) \/ P_return(p)
         \/ Wait(p) \/ LoginSteps(p) \/ GetDevicesSteps(p) \/ GetDeviceDataSteps(p)

SpecPoll == InitStarted /\ [][NextPoll]_vars

\* A poll tick against the request handlers: SetCredentials, TestConnection and
\* a control submission run on the handler's goroutine while pollTCC runs on
\* the loop's; the clock stands still.
NextTick ==
    \/ \E p \in {"poll"} :
         \/ (P_start(p) /\ UNCHANGED loopVars)
         \/ P_afterLogin(p) \/ P_afterGD(p) \/ P_device(p) \/ P_return(p)
    \/ \E p \in {"web"} :
         \/ CallSetCredentials(p) \/ CallTestConnection(p) \/ CallSubmitControl(p)
         \/ Finish(p) \/ TestConnectionSteps(p) \/ SubmitControlSteps(p)
    \/ \E p \in Procs :
         \/ Wait(p) \/ LoginSteps(p) \/ GetDevicesSteps(p) \/ GetDeviceDataSteps(p)

SpecTick == InitStarted /\ [][NextTick]_vars

\* The server has polled once or not yet: the snapshot table holds one row or
\* none; commands arrive from the bridge one after the other.
InitCmd ==
    /\ remote = << Dev(1, 67, "heat") >>
    /\ db \in { {}, { StorageState(Dev(1, 67, "heat")) } }
    /\ tick = <<>>
    /\ lastTick = <<>>
    /\ lr = <<>>
    /\ lout = "none"
    /\ hm = NoHM
    /\ pbody = NoBody
    /\ pout = NoParse
    /\ fin = NoArg
    /\ fout = NoResult
    /\ th = NewThermostatEndpoint
    /\ lk = NoLocks
    /\ cachedFor = NoCredentials
    /\ hub = NewHub
    /\ ctxDone = FALSE
    /\ tickerC = FALSE
    /\ tickerAt = 0
    /\ rl = "initial"
    /\ afterFail = FALSE
    /\ now = 0
    /\ session = SetCredentials(NewSession, "user", "secret")
    /\ tokens = Burst
    /\ lastPoll = ZeroTime
    /\ devices = <<>>
    /\ proc = [p \in Procs |-> Idle]
    /\ authOp = "SetCredentials"
    /\ refreshed = "none"
    /\ unpaid = FALSE
    /\ cmdDone = FALSE

NextCmd ==
    \/ Tick(TickStep)
    \/ RemoteChange
    \/ \E p \in {"web"} :
         \/ HandlerSteps(p) \/ Finish(p) \/ Wait(p)
         \/ LoginSteps(p) \/ SubmitControlSteps(p) \/ GetDeviceDataSteps(p)

SpecCmd == InitCmd /\ [][NextCmd]_vars

\* The polling loop from its start to its return, with the server's context
\* cancelled at any moment.
PollSteps(p) ==
    \/ R_initial(p) \/ R_newTicker(p) \/ R_tick(p)
    \/ P_afterLogin(p) \/ P_afterGD(p) \/ P_device(p) \/ P_return(p)
    \/ Wait(p) \/ LoginSteps(p) \/ GetDevicesSteps(p) \/ GetDeviceDataSteps(p)

NextLoop ==
    \/ Tick(2 * TickStep)
    \/ TickerFire
    \/ Cancel
    \/ PollSteps("poll")
    \/ R_done("poll")

SpecLoop == InitStarted /\ [][NextLoop]_vars

\* The goroutine of the loop keeps taking steps, the ticker keeps firing, and a
\* select with its Done case ready again and again takes it in the end.
SpecLoopFair ==
    /\ SpecLoop
    /\ WF_vars(PollSteps("poll"))
    /\ WF_vars(TickerFire)
    /\ SF_vars(R_done("poll"))

\* The polling loop on the clock: the ticker is due every TCCPollInterval
\* minutes from its making; time passes while a request is on its way and
\* while the loop waits for the ticker.  The session pollTCC found
\* authenticated is still so when GetDevices looks at it, a minute later at
\* most: GetDevices does not log in.
NextSched ==
    \/ TickerDue
    \/ \E p \in {"poll"} :
         \/ RoundTrip(p) \/ Sleep(p)
         \/ R_initial(p) \/ R_newTicker(p) \/ R_tick(p)
         \/ P_afterLogin(p) \/ P_afterGD(p) \/ P_device(p) \/ P_return(p)
         \/ Wait(p) \/ LoginSteps(p) \/ GetDeviceDataSteps(p)
         \/ GD_auth(p) \/ GD_gate(p) \/ GD_cached(p) \/ GD_fetch(p) \/ GD_fallback(p)
         \/ GD_afterDD(p) \/ GD_store(p) \/ GD_stamp(p) \/ GD_refresh(p)

SpecSched == InitStarted /\ [][NextSched]_vars

\* Three goroutines in the client's locked sections at once.
NextLocks ==
    \E g \in Callers :
       \/ K_gateLock(g) \/ K_gateUnlock(g) \/ K_cachedRLock(g) \/ K_cachedRUnlock(g)
       \/ K_storeLock(g) \/ K_storeUnlock(g) \/ K_stampLock(g) \/ K_stampUnlock(g)
       \/ K_clearLock(g) \/ K_clearUnlock(g)

SpecLocks == Init /\ [][NextLocks]_vars

\* The poll tick against the handler of the requests to test credentials; the
\* clock stands still.
NextTest ==
    \/ \E p \in {"poll"} :
         \/ (P_start(p) /\ UNCHANGED loopVars)
         \/ P_afterLogin(p) \/ P_afterGD(p) \/ P_device(p) \/ P_return(p)
    \/ \E p \in {"web"} :
         \/ CallTestCredentials(p) \/ Finish(p) \/ TestConnectionSteps(p)
    \/ \E p \in Procs :
         \/ Wait(p) \/ LoginSteps(p) \/ GetDevicesSteps(p) \/ GetDeviceDataSteps(p)

SpecTest == InitStarted /\ [][NextTest]_vars

\* A handler saves the credentials of one account or the other between the
\* calls of GetDevices.
NextAccounts ==
    \/ Tick(TickStep)
    \/ \E p \in {"web"} :
         \/ CallSaveCredentials(p) \/ CallGetDevices(p) \/ Finish(p)
         \/ Wait(p) \/ LoginSteps(p) \/ GetDevicesSteps(p) \/ GetDeviceDataSteps(p)

SpecAccounts == InitStarted /\ [][NextAccounts]_vars

\* The hub's Run against the connections' handlers and pumps, the callers
\* of Broadcast and the cancellation of the server's context.
NextHub ==
    \/ Cancel
    \/ Broadcast
    \/ HubBroadcast
    \/ HubDone
    \/ \E c \in Conns :
         \/ W_connect(c) \/ HubRegister(c) \/ W_readFail(c) \/ HubUnregister(c) \/ W_write(c)

SpecHub == Init /\ [][NextHub]_vars

\* Every response body, parsed.
InitParse ==
    /\ InitClient
    /\ remote = << Dev(1, 67, "heat") >>
    /\ db = {}
    /\ tick = <<>>
    /\ lastTick = <<>>
    /\ lr = <<>>
    /\ lout = "none"
    /\ hm = NoHM
    /\ pbody \in Bodies
    /\ pout = NoParse
    /\ fin = NoArg
    /\ fout = NoResult
    /\ th = NewThermostatEndpoint
    /\ lk = NoLocks
    /\ cachedFor = NoCredentials
    /\ hub = NewHub
    /\ ctxDone = FALSE
    /\ tickerC = FALSE
    /\ tickerAt = 0
    /\ rl = "initial"
    /\ afterFail = FALSE

NextParse == ParseList \/ ParseDetail

SpecParse == InitParse /\ [][NextParse]_vars

\* the arguments the functions are evaluated on
Args ==
    { [kind |-> "state", state |-> st] : st \in ForwardedStates }
    \cup { [kind |-> "code", pos |-> c] : c \in Codes }
    \cup { [kind |-> "mode", mode |-> m] : m \in ModeStrings }

\* Every function value.
InitPure ==
    /\ InitClient
    /\ remote = << Dev(1, 67, "heat") >>
    /\ db = {}
    /\ tick = <<>>
    /\ lastTick = <<>>
    /\ lr = <<>>
    /\ lout = "none"
    /\ hm = NoHM
    /\ pbody = NoBody
    /\ pout = NoParse
    /\ fin \in Args
    /\ fout = NoResult
    /\ th = NewThermostatEndpoint
    /\ lk = NoLocks
    /\ cachedFor = NoCredentials
    /\ hub = NewHub
    /\ ctxDone = FALSE
    /\ tickerC = FALSE
    /\ tickerAt = 0
    /\ rl = "initial"
    /\ afterFail = FALSE

NextPure == UpdateState \/ SetpointBack \/ FromTCC \/ ToTCC

SpecPure == InitPure /\ [][NextPure]_vars

\* The bridge's adapter: posts to /state call updateState, one call starting
\* while another awaits its set, and a controller writes attributes.
NextBridge ==
    \/ \E i \in Pushes, state \in PushedStates : U_call(i, state)
    \/ \E i \in Pushes : U_set(i) \/ U_finally(i)
    \/ \E w \in ExternalWrites : E_write(w)

SpecBridge == Init /\ [][NextBridge]_vars

\* Every login response, classified.
InitLogin ==
    /\ InitClient
    /\ remote = << Dev(1, 67, "heat") >>
    /\ db = {}
    /\ tick = <<>>
    /\ lastTick = <<>>
    /\ lr \in AllLoginResponses
    /\ lout = "none"
    /\ hm = NoHM
    /\ pbody = NoBody
    /\ pout = NoParse
    /\ fin = NoArg
    /\ fout = NoResult
    /\ th = NewThermostatEndpoint
    /\ lk = NoLocks
    /\ cachedFor = NoCredentials
    /\ hub = NewHub
    /\ ctxDone = FALSE
    /\ tickerC = FALSE
    /\ tickerAt = 0
    /\ rl = "initial"
    /\ afterFail = FALSE

SpecLogin == InitLogin /\ [][Classify]_vars

\* ============================================================== the claims
\* C1, as stated: whenever a GetDevices call finds the cache non-empty and
\* younger than MinPollInterval, it is at "return c.devices" and has issued no
\* request and taken no limiter token, whether the session was authenticated
\* or not.
C1_AsStated ==
    \A p \in Procs :
        proc[p].gd.freshGate =>
            proc[p].pc = "GD_cached" /\ ~proc[p].gd.req /\ ~proc[p].gd.tok

\* C1, amended: a GetDevices call that found the session authenticated (it did
\* not call Login) and the cache non-empty and younger than MinPollInterval
\* returns the cached list, having issued no request and taken no token.
C1_CacheGate ==
    \A p \in Procs :
        (proc[p].gd.freshGate /\ ~proc[p].gd.login) =>
            proc[p].pc = "GD_cached" /\ ~proc[p].gd.req /\ ~proc[p].gd.tok

\* a call is returning the cached list without having logged in
C1_Witness ==
    \E p \in Procs :
        proc[p].pc = "GD_cached" /\ proc[p].gd.freshGate /\ ~proc[p].gd.login

\* C2, as stated: a GetDevices call that started after a successful control
\* submission returned, with no other GetDevices call started in between,
\* never returns the cached list, in any interleaving.
C2_AsStated ==
    \A p \in Procs : proc[p].pc = "GD_cached" => ~proc[p].gd.afterCmd

\* the last turn of the device loop of a poll tick is over
PollEnd(p) == proc[p].pc = "P_loop" /\ Len(tick) = Len(proc[p].out)

\* the previous tick's record of the device, if it obtained one identical in every field
SameInLastTick(device) == { i \in 1..Len(lastTick) : lastTick[i].device = device }

\* C3, as stated: when a poll tick obtains a device the previous tick obtained
\* with identical temperature, setpoints, mode and humidity, both ticks persist
\* the snapshot and the second tick neither logs a state change nor calls
\* UpdateState.
C3_AsStated ==
    \A p \in Procs :
        PollEnd(p) =>
            \A i \in 1..Len(tick) :
                \A j \in SameInLastTick(tick[i].device) :
                    /\ lastTick[j].saves = 1 /\ tick[i].saves = 1
                    /\ ~tick[i].logged /\ ~tick[i].forwarded

\* the snapshot differs from the device in a compared field
Differs(prevState, device) ==
    \E ps \in prevState :
        \/ ps.CurrentTemp # device.CurrentTemp
        \/ ps.HeatSetpoint # device.HeatSetpoint
        \/ ps.CoolSetpoint # device.CoolSetpoint
        \/ ps.SystemMode # ParseSystemMode(device.SystemMode)
        \/ ps.Humidity # device.Humidity

C5_IsAuthenticated ==
    /\ IsAuthenticated <=> (session.authenticated /\ now - session.lastLogin <= LoginExpiry)
    /\ authOp \in {"NewSession", "SetCredentials", "MarkUnauthenticated", "ClearSession"}
         => ~IsAuthenticated

\* a 401 has marked unauthenticated a session still inside its expiry window
C5_Witness ==
    /\ authOp = "MarkUnauthenticated"
    /\ now - session.lastLogin <= LoginExpiry
    /\ ~IsAuthenticated

\* process p takes the step in which its Login marks the session authenticated
LoginSucceeds(p) ==
    /\ proc[p].pc = "L_handle" /\ proc[p].resp = "success"
    /\ proc'[p] # proc[p]

\* C6, as stated: IsAuthenticated() goes from false to true only in the step
\* in which a Login succeeds.
C6_AsStated ==
    [][(~IsAuthenticated /\ IsAuthenticated') => \E p \in Procs : LoginSucceeds(p)]_vars

\* C6, amended: the authenticated flag goes from false to true only in the
\* step in which a Login succeeds; IsAuthenticated() goes from false to true
\* only there or where RefreshSession re-stamps a session whose flag is still
\* set (one that expired while the call was running).  RefreshSession on a
\* session whose flag is cleared leaves it unauthenticated.
C6_Transitions ==
    [][ /\ (~session.authenticated /\ session'.authenticated)
             => \E p \in Procs : LoginSucceeds(p)
        /\ (~IsAuthenticated /\ IsAuthenticated')
             => \/ \E p \in Procs : LoginSucceeds(p)
                \/ session.authenticated /\ session' = RefreshSession(session) ]_vars

\* RefreshSession has re-stamped a session whose flag another goroutine's 401
\* had cleared, and the session is still unauthenticated
C6_Witness == refreshed = "unauthenticated" /\ ~IsAuthenticated /\ now - session.lastLogin = 0

\* C7: the step of Login that finds the username or the password empty
\* returns "credentials not set" to Login's caller, takes no token, issues no
\* request and leaves the Session as it is.
C7_NoCredentials ==
    [][ \A p \in Procs :
          ( /\ proc[p].pc = "L_creds"
            /\ (session.username = "" \/ session.password = "")
            /\ proc'[p] # proc[p] )
          => /\ proc'[p].pc = Head(proc[p].stack)
             /\ proc'[p].ret = "errNoCreds"
             /\ tokens' = tokens /\ ~proc'[p].held /\ unpaid' = unpaid
             /\ session' = session ]_vars

\* Login has returned "credentials not set" with a username and no password
C7_Witness ==
    \E p \in Procs :
        /\ proc[p].ret = "errNoCreds"
        /\ session.username # "" /\ session.password = ""

\* the labels at which an HTTP request leaves
RequestLabels == {"L_get", "L_post", "GD_fetch", "DD_fetch", "SC_post"}

\* C8: a goroutine is at a request exactly when it holds a token its own
\* limiter wait took, and no request has left without one; the bucket holds
\* between 0 and Burst tokens, each grant takes one token out of it and a
\* step of m minutes puts at most m back, so that no more than Burst + m
\* requests leave in m minutes; a cancelled wait returns its error and goes
\* to no request.
C8_Limiter ==
    /\ [](/\ ~unpaid
          /\ tokens \in 0..Burst
          /\ \A p \in Procs : proc[p].held <=> proc[p].pc \in RequestLabels)
    /\ [][ /\ tokens' <= tokens + (now' - now) * RefillPerMinute
           /\ \A p \in Procs :
                /\ (proc'[p].held /\ ~proc[p].held)
                     => tokens >= 1 /\ tokens' = tokens - 1 /\ proc[p].pc \in WaitLabels
                /\ (proc[p].pc \in WaitLabels /\ proc'[p] # proc[p] /\ ~proc'[p].held)
                     => /\ proc'[p].ret = "errWait"
                        /\ proc'[p].pc \notin RequestLabels
                        /\ tokens' = tokens ]_vars

\* the burst is spent: one goroutine holds the last token, the other waits
C8_Witness ==
    /\ tokens = 0
    /\ \E p, q \in Procs : proc[p].held /\ proc[q].pc \in WaitLabels

\* C9: the step of GetDeviceData that handles a 401 clears the authenticated
\* flag, returns "session expired" to its caller at once, taking no token and
\* going to no request; and IsAuthenticated() is false for as long as that
\* MarkUnauthenticated is the last write of the flag.
C9_Unauthorized ==
    /\ [](authOp = "MarkUnauthenticated" => ~session.authenticated /\ ~IsAuthenticated)
    /\ [][ \A p \in Procs :
             ( /\ proc[p].pc = "DD_handle"
               /\ proc[p].status = StatusUnauthorized
               /\ proc'[p] # proc[p] )
             => /\ ~session'.authenticated /\ authOp' = "MarkUnauthenticated"
                /\ proc'[p].pc = Head(proc[p].stack)
                /\ proc'[p].ret = "errSessionExpired"
                /\ tokens' = tokens /\ ~proc'[p].held /\ unpaid' = unpaid ]_vars

\* GetDeviceData, called for the device of the login redirect, has returned
\* "session expired" to GetDevices and the session is unauthenticated
C9_Witness ==
    \E p \in Procs :
        /\ proc[p].pc = "GD_afterDD" /\ proc[p].ret = "errSessionExpired"
        /\ ~IsAuthenticated

\* C10, as stated: a classified login response whose final URL carries the
\* lockout marker is the rate-limited failure, and one whose body carries an
\* invalid-credentials marker while the final URL is not inside the
\* application area is the invalid-credentials failure.
C10_AsStated ==
    lout # "none" =>
        /\ Contains(lr.url, "TooManyAttempts") => lout = "rateLimited"
        /\ ((\E m \in FailMarkers : Contains(lr.body, m))
              /\ ~(Contains(lr.url, "/portal") /\ ~Contains(lr.url, "Login")))
             => lout = "invalidCredentials"

\* the labels of Client.Login
LoginLabels == {"L_creds", "L_wait1", "L_get", "L_wait2", "L_post", "L_handle"}

\* C11: a step of Login that returns success has set the authenticated flag
\* and stamped lastLogin; every other step of Login, those that return a
\* failure included (credentials missing, limiter wait cancelled, transport
\* error, rate-limited, error page, invalid credentials, unexpected response),
\* leaves the flag and lastLogin as they were.
C11_LoginMarks ==
    [][ \A p \in Procs :
          (proc[p].pc \in LoginLabels /\ proc'[p] # proc[p])
          => IF proc'[p].pc \notin LoginLabels /\ proc'[p].ret = "ok"
             THEN session'.authenticated /\ session'.lastLogin = now
             ELSE /\ session'.authenticated = session.authenticated
                  /\ session'.lastLogin = session.lastLogin ]_vars

\* a Login called on an authenticated session has returned "invalid
\* credentials" and the session is still authenticated
C11_Witness ==
    \E p \in Procs :
        /\ proc[p].pc = "done" /\ proc[p].ret = "invalidCredentials"
        /\ session.authenticated

\* C12: TestConnection first clears the session and calls Login; the Login
\* it called returns success to it only in the step in which that Login marks
\* the session authenticated; when that Login fails TestConnection returns
\* its error at once and no GetDevices call is entered; and TestConnection
\* returns otherwise only what the GetDevices it then called returned, so it
\* returns success only after a Login of its own succeeded.
C12_TestConnection ==
    [][ \A p \in Procs :
          proc'[p] # proc[p] =>
            /\ proc[p].pc = "TC_clear"
                 => /\ ~session'.authenticated /\ session'.lastLogin = ZeroTime
                    /\ proc'[p].pc = "L_creds" /\ Head(proc'[p].stack) = "TC_afterLogin"
            /\ (proc'[p].pc = "TC_afterLogin" /\ proc'[p].ret = "ok")
                 => LoginSucceeds(p)
            /\ proc[p].pc = "TC_afterLogin"
                 => IF proc[p].ret = "ok"
                    THEN proc'[p].pc = "GD_auth" /\ Head(proc'[p].stack) = "TC_afterGD"
                    ELSE /\ proc'[p].pc = "done" /\ proc'[p].ret = proc[p].ret
                         /\ ~proc'[p].gd.active
            /\ (proc[p].pc \in {"TC_clear", "TC_afterLogin", "TC_afterGD"}
                  /\ proc'[p].pc = "done" /\ proc'[p].ret = "ok")
                 => proc[p].pc = "TC_afterGD" /\ proc[p].ret = "ok" ]_vars

\* TestConnection, called on an authenticated session with a fresh cache, has
\* returned the failure of its Login, and the session is cleared
C12_Witness ==
    \E p \in Procs :
        /\ proc[p].pc = "done" /\ proc[p].ret = "invalidCredentials"
        /\ authOp = "ClearSession" /\ ~session.authenticated /\ CacheFresh

\* C13: when the client call that submits a command's mutation returns an
\* error, the handler's next step returns that same error, and no snapshot
\* has been saved, none forwarded to the bridge and no change event logged:
\* the snapshot table is as it was when the command arrived.
C13_MutationFails ==
    [][ \A p \in Procs :
          (proc[p].pc = "H_afterSet" /\ proc[p].ret # "ok" /\ proc'[p] # proc[p])
          => /\ proc'[p].pc = "done" /\ proc'[p].ret = proc[p].ret
             /\ hm'.result = proc[p].ret
             /\ hm'.fetched = <<>> /\ hm'.saved = <<>> /\ hm'.forwarded = <<>>
             /\ hm'.events = <<>>
             /\ db' = db /\ db' = hm.dbBefore ]_vars

\* a heat setpoint command has failed with the session-expired error of its
\* control request
C13_Witness ==
    /\ proc["web"].pc = "done" /\ proc["web"].ret = "errSessionExpired"
    /\ hm.cmd.Action = "setHeatingSetpoint" /\ hm.req # NoReq
    /\ hm.result = "errSessionExpired"

\* C14 as stated: a handler that has returned success has re-fetched the
\* device, saved and forwarded the refreshed snapshot and logged the change.
C14_AsStated ==
    hm.result = "ok"
    => /\ hm.submitted
       /\ hm.fetched # <<>> /\ hm.saved # <<>> /\ hm.forwarded # <<>>
       /\ hm.events # <<>>

\* C14: a handler that has returned success had a recognized action, its
\* mutation was submitted with success, a setpoint being submitted as
\* C*9/5+32 Fahrenheit, and one change event with the old and the new value
\* is logged; the refreshed snapshot is saved and forwarded exactly when the
\* re-fetch after the submission succeeded, and else the table is untouched.
C14_Handled ==
    hm.result = "ok"
    => /\ hm.cmd.Action \in RecognizedActions
       /\ hm.submitted
       /\ hm.cmd.Action = "setHeatingSetpoint"
            => 5 * hm.req.HeatSetpoint[1] = 9 * hm.cmd.Value + 5 * Deg(32)
       /\ hm.cmd.Action = "setCoolingSetpoint"
            => 5 * hm.req.CoolSetpoint[1] = 9 * hm.cmd.Value + 5 * Deg(32)
       /\ Len(hm.events) = 1
       /\ hm.events[1].new = CASE hm.cmd.Action = "setHeatingSetpoint" -> hm.req.HeatSetpoint[1]
                               [] hm.cmd.Action = "setCoolingSetpoint" -> hm.req.CoolSetpoint[1]
                               [] OTHER -> hm.cmd.Value
       /\ \E st \in hm.oldState :
            hm.events[1].old = CASE hm.cmd.Action = "setHeatingSetpoint" -> Deg(st.HeatSetpoint)
                                 [] hm.cmd.Action = "setCoolingSetpoint" -> Deg(st.CoolSetpoint)
                                 [] OTHER -> ModeString(st.SystemMode)
       /\ IF hm.fetched = <<>>
          THEN hm.saved = <<>> /\ hm.forwarded = <<>> /\ db = hm.dbBefore
          ELSE /\ hm.fetched[1].DeviceID = hm.deviceID
               /\ hm.forwarded = hm.fetched
               /\ hm.saved = << StorageState(hm.fetched[1]) >>
               /\ hm.saved[1] \in db

\* the command "heat to 21.0" has returned success, submitted as 69.8, with
\* the re-fetch failed and nothing saved
C14_Witness ==
    /\ hm.result = "ok" /\ proc["web"].pc = "done"
    /\ hm.cmd.Action = "setHeatingSetpoint" /\ hm.cmd.Value = Deg(21)
    /\ hm.req.HeatSetpoint = << Deg(698) \div 10 >>
    /\ hm.fetched = <<>>

\* C15 as stated: a command whose action is not a recognized one ends with
\* the unknown-command error, and no request was built, nothing saved and
\* nothing forwarded.
C15_AsStated ==
    (hm.cmd.Action \notin RecognizedActions \cup {"none"} /\ hm.result # "none")
    => /\ hm.result = "errUnknownCommand"
       /\ hm.req = NoReq /\ hm.saved = <<>> /\ hm.forwarded = <<>>

\* the optional fields a control request carries (those not nil)
Carried(req) ==
    { f \in {"SystemSwitch", "HeatSetpoint", "CoolSetpoint", "HeatNextPeriod",
             "CoolNextPeriod", "StatusHeat", "StatusCool", "FanMode"} : req[f] # Nil }

\* C20: the control request built for a command carries one concern: for a
\* heat setpoint the heat setpoint with StatusHeat = 1 and HeatNextPeriod = 0
\* and nothing else, for a cool setpoint the cool setpoint with StatusCool = 1
\* and CoolNextPeriod = 0 and nothing else, for a mode change the system
\* switch and nothing else; so none carries a mode with a setpoint, or both
\* setpoints.
C20_OneConcern ==
    hm.req # NoReq
    => /\ hm.req.DeviceID = hm.deviceID
       /\ Cardinality(Carried(hm.req) \cap {"SystemSwitch", "HeatSetpoint", "CoolSetpoint"}) = 1
       /\ CASE hm.cmd.Action = "setHeatingSetpoint" ->
                 /\ Carried(hm.req) = {"HeatSetpoint", "StatusHeat", "HeatNextPeriod"}
                 /\ hm.req.StatusHeat = << 1 >> /\ hm.req.HeatNextPeriod = << 0 >>
            [] hm.cmd.Action = "setCoolingSetpoint" ->
                 /\ Carried(hm.req) = {"CoolSetpoint", "StatusCool", "CoolNextPeriod"}
                 /\ hm.req.StatusCool = << 1 >> /\ hm.req.CoolNextPeriod = << 0 >>
            [] OTHER ->
                 /\ Carried(hm.req) = {"SystemSwitch"}
                 /\ hm.req.SystemSwitch = << TCCModeCool >>

\* a heat setpoint request and nothing but it was submitted with success
C20_Witness ==
    /\ hm.submitted
    /\ hm.req.HeatSetpoint = << Deg(698) \div 10 >> /\ hm.req.SystemSwitch = Nil /\ hm.req.CoolSetpoint = Nil

\* the elements of an array body all are of the nested location shape
NestedShape(body) ==
    /\ body.kind = "array" /\ body.elems # <<>>
    /\ \A i \in 1..Len(body.elems) : "Zones" \in DOMAIN body.elems[i]

\* the elements of an array body all are of the flat zone shape
FlatShape(body) ==
    /\ body.kind = "array"
    /\ \A i \in 1..Len(body.elems) : "Zones" \notin DOMAIN body.elems[i]

RECURSIVE ZoneCount(_)
ZoneCount(elems) ==
    IF elems = <<>> THEN 0 ELSE Len(Head(elems).Zones) + ZoneCount(Tail(elems))

\* C16 as stated: a flat array of N zones parses to N states, a nested array
\* of locations to as many states as the locations hold zones, each the state
\* of its zone, and a body of neither shape to the empty list.
C16_AsStated ==
    (pout.done /\ pbody.kind # "detail")
    => /\ FlatShape(pbody) => Len(pout.states) = Len(pbody.elems)
       /\ NestedShape(pbody) => Len(pout.states) = ZoneCount(pbody.elems)
       /\ (~FlatShape(pbody) /\ ~NestedShape(pbody)) => pout.states = <<>>

\* C17 as stated: every state a parser has produced has its humidity within
\* [0, 100].
C17_AsStated ==
    pout.done => \A i \in 1..Len(pout.states) :
                    pout.states[i].Humidity >= 0 /\ pout.states[i].Humidity <= 100

C19_Terminates ==
    /\ ctxDone ~> (rl = "returned")
    /\ [][ (ctxDone /\ proc'["poll"] # proc["poll"])
           => /\ tokens' >= tokens
              /\ proc["poll"].pc \in WaitLabels
                   => proc'["poll"].ret = "errWait" /\ proc'["poll"].pc \notin RequestLabels
              /\ proc'["poll"].pc \notin {"L_handle", "DD_handle"}
              /\ proc["poll"].pc = "L_get" => proc'["poll"].ret = "errNet"
              /\ proc["poll"].pc = "GD_fetch" => proc'["poll"].devs = <<>> ]_vars

\* the loop has returned after its tick in progress was aborted at a limiter
\* wait
C19_Witness ==
    /\ rl = "returned" /\ ctxDone
    /\ TickFailed /\ tick[1].err = "errWait"

Abs(x) == IF x < 0 THEN -x ELSE x

\* C21: every state posted to the bridge carries the current temperature
\* and both setpoints as (F-32)*5/9, to the nearest unit, and the mode and
\* the humidity as they were given; and converting the posted temperature
\* back as C*9/5+32 gives the Fahrenheit value within a thousandth of a
\* degree.
C21_RoundTrip ==
    (fin.kind = "state" /\ fout.done)
    => /\ \A k \in {"CurrentTemp", "HeatSetpoint", "CoolSetpoint"} :
            Abs(9 * fout.matter[k] - 5 * (fin.state[k] - Deg(32))) <= 4
       /\ fout.matter.SystemMode = fin.state.SystemMode
       /\ fout.matter.Humidity = fin.state.Humidity
       /\ fout.back # <<>>
            => Abs(fout.back[1] - fin.state.CurrentTemp) <= Deg(1) \div 1000

\* 67.0 degrees Fahrenheit is posted as 19.4444 degrees Celsius, with the
\* mode "unknown" and the humidity 128 untouched, and comes back as 67.0
\* to the unit
C21_Witness ==
    /\ fin.kind = "state" /\ fout.done
    /\ fin.state.CurrentTemp = Deg(67)
    /\ fin.state.SystemMode = "unknown" /\ fin.state.Humidity = 128
    /\ fout.matter.CurrentTemp = 194444
    /\ fout.matter.SystemMode = "unknown" /\ fout.matter.Humidity = 128
    /\ fout.back # <<>>
    /\ Abs(fout.back[1] - Deg(67)) <= 1

\* C22: a GetDevices call that found the session authenticated (it performed
\* no Login) while the cached list is empty is never answered from the
\* cache: it enters the endpoint loop, and once past the loop it has issued
\* a request, however recent lastPoll is.  With one goroutine calling, the
\* cached list is the one the call started with until the call stores its own.
C22_EmptyCacheFetches ==
    \A p \in Procs :
        (proc[p].gd.active /\ ~proc[p].gd.login /\ devices = <<>>)
        => /\ proc[p].pc # "GD_cached"
           /\ proc[p].pc \notin {"GD_auth", "GD_gate", "GD_wait", "GD_fetch"} => proc[p].gd.req

\* right after a live fetch that stored no device (lastPoll is the present),
\* a call on the authenticated session has sent a request and is past the
\* endpoint loop
C22_Witness ==
    \E p \in Procs :
        /\ proc[p].gd.active /\ ~proc[p].gd.login /\ devices = <<>>
        /\ lastPoll = now
        /\ proc[p].pc = "GD_fallback" /\ proc[p].gd.req

\* C23: SystemModeFromTCC maps the positions 0, 1, 2, 3, 4 to emergency,
\* heat, off, cool, auto and every other position to "unknown"; and applied
\* to what SystemModeToTCC gives for one of these five modes it gives the
\* mode back.
C23_ModeMapping ==
    /\ (fin.kind = "code" /\ fout.done)
       => fout.mode = CASE fin.pos = 0 -> "emergency"
                        [] fin.pos = 1 -> "heat"
                        [] fin.pos = 2 -> "off"
                        [] fin.pos = 3 -> "cool"
                        [] fin.pos = 4 -> "auto"
                        [] OTHER -> "unknown"
    /\ (fin.kind = "mode" /\ fout.done /\ fout.mode # ""
          /\ fin.mode \in {"emergency", "heat", "off", "cool", "auto"})
       => fout.mode = fin.mode

\* "cool" has been mapped to the position 3 and back to "cool"
C23_Witness ==
    /\ fin.kind = "mode" /\ fin.mode = "cool"
    /\ fout.done /\ fout.code = 3 /\ fout.mode = "cool"

\* the Login calls of the poll tick in progress: pollTCC's own, the one of its
\* GetDevices, and the one of the fallback GetDeviceData
TickLogins ==
    LET gd == proc["poll"].gd
        n(b) == IF b THEN 1 ELSE 0
    IN n(gd.tickLogin) + n(gd.login) + n(gd.ddLogin)

\* C24 as stated: a poll tick calls Login at most once, whatever the request
\* handlers do meanwhile.
C24_AsStated == TickLogins <= 1

\* C25 as stated: a tick whose Login failed with the rate-limited outcome
\* logs the rate-limited event, neither the connection-failure event nor the
\* login-failure event.
C25_AsStated ==
    (TickFailed /\ tick[1].stage = "login" /\ tick[1].err = "rateLimited")
    => tick[1].logged = "rateLimited"

\* C26 as stated: a live fetch in which every request failed (no list endpoint
\* answered with a body to parse, and the fallback gave no device) leaves a
\* non-empty cached list as it is, and leaves lastPoll and the session as
\* they are.
C26_AsStated ==
    [][\A p \in Procs :
         (/\ proc[p].gd.req /\ ~proc[p].gd.ans /\ proc[p].devs = <<>>
          /\ proc'[p] # proc[p])
         => /\ (proc[p].pc = "GD_store" /\ devices # <<>>) => devices' = devices
            /\ proc[p].pc = "GD_stamp" => lastPoll' = lastPoll
            /\ proc[p].pc = "GD_refresh" => session' = session]_vars

\* the process is inside submitControl, its Login included, before the
\* response has been taken for a success
InSubmit(p) ==
    \/ proc[p].pc \in {"SC_auth", "SC_afterLogin", "SC_wait", "SC_post", "SC_handle"}
    \/ \E i \in DOMAIN proc[p].stack : proc[p].stack[i] = "SC_afterLogin"

\* C27: no step of a control submission changes lastPoll or the cached list,
\* except the reset of lastPoll to the zero value, which only a response of
\* status 200 leads to; a Login that fails, a limiter wait that fails and a
\* transport error leave the session's flag and stamp as they are; a
\* response that is not 200 does not re-stamp the session, a 401 clears the
\* flag and any other status leaves the session as it is.
C27_Frame ==
    [][\A p \in Procs :
         (proc'[p] # proc[p])
         => /\ InSubmit(p) => (lastPoll' = lastPoll /\ devices' = devices)
            /\ proc[p].pc = "SC_clear" => (lastPoll' = ZeroTime /\ devices' = devices)
            /\ proc'[p].pc = "SC_clear" =>
                 (proc[p].pc = "SC_handle" /\ proc[p].status = 200)
            /\ (InSubmit(p) /\ proc'[p].pc = "done" /\ proc[p].pc # "SC_handle")
                 => (session'.authenticated = session.authenticated
                     /\ session'.lastLogin = session.lastLogin)
            /\ (proc[p].pc = "SC_handle" /\ proc[p].status # 200)
                 => /\ proc'[p].pc = "done" /\ proc'[p].ret # "ok"
                    /\ session'.lastLogin = session.lastLogin
                    /\ IF proc[p].status = 401
                       THEN ~session'.authenticated
                       ELSE session' = session]_vars

\* a submission has ended on a 401 while the cache holds a device and
\* lastPoll the time of its fetch: the session is unauthenticated
C27_Witness ==
    /\ proc["web"].pc = "done" /\ proc["web"].ret = "errSessionExpired"
    /\ ~session.authenticated
    /\ devices # <<>> /\ lastPoll # ZeroTime

\* C28: the data requests of a GetDevices call are, in this order, the
\* locations list, the zone list and the single-device fetch, at most one of
\* each and so at most three; a request is sent only when every request
\* before it gave no device, and the single-device fetch only after both
\* lists and with a last-known device id set.
C28_EndpointOrder ==
    \A p \in Procs :
        LET reqs == proc[p].gd.reqs
        IN /\ Len(reqs) <= 3
           /\ \A i \in DOMAIN reqs :
                /\ reqs[i].path = << "LocationsPath", "ZoneListPath", "DeviceDataPath" >>[i]
                /\ i < Len(reqs) => reqs[i].n = 0
           /\ Len(reqs) = 3 => session.lastDeviceID # 0

\* both lists gave nothing and the single-device fetch for the last-known
\* device has been sent
C28_Witness ==
    \E p \in Procs :
        /\ Len(proc[p].gd.reqs) = 3
        /\ proc[p].pc = "DD_handle"
        /\ session.lastDeviceID = 1

\* C29 as stated: the event of an updateState's own endpoint.set is never
\* forwarded to the command handler, however the calls overlap.
C29_AsStated == ~(th.last.from = "push" /\ th.last.forwarded)

\* no call of updateState is in progress
NoPush == \A i \in Pushes : th.call[i].pc = "idle"

\* C30: while no call of updateState is in progress the flag isUpdating is
\* false, also after a set that threw; and the event of an attribute written
\* by a controller at such a time is forwarded to the command handler.
C30_FlagCleared ==
    /\ [](NoPush => ~th.isUpdating)
    /\ [][(NoPush /\ th'.attrs # th.attrs)
           => (th'.last.from = "external" /\ th'.last.forwarded)]_vars

\* a set has thrown, its call has ended, and a write of the heating setpoint
\* by a controller has then been forwarded as a command
C30_Witness ==
    /\ NoPush /\ ~th.isUpdating /\ th.thrown
    /\ th.last = [attr |-> "occupiedHeatingSetpoint", from |-> "external", forwarded |-> TRUE]
    /\ th.currentState.heatSetpoint = matterToCelsius(th.attrs.occupiedHeatingSetpoint)

\* C31: a call of updateState with the state the call before it left in the
\* adapter collects no update: it does not reach endpoint.set and the
\* endpoint's attributes are after it what they were before it.
C31_IdempotentPush ==
    [][\A i \in Pushes, state \in PushedStates :
          (U_call(i, state) /\ state = th.currentState)
              => (th'.call[i].pc = "idle" /\ th'.attrs = th.attrs)]_vars

\* a state was pushed, its set went through, and it was pushed once more
C31_Witness ==
    /\ th.again
    /\ \A i \in Pushes : th.call[i].pc = "idle"
    /\ th.attrs.occupiedHeatingSetpoint = celsiusToMatter(21)
    /\ th.currentState.heatSetpoint = 21
    /\ th.last.from = "push"

\* C32: with the poll interval of the default configuration, no tick of the
\* ticker that finds the session authenticated is answered from the poll
\* cache.
C32_AsStated ==
    ~ /\ rl = "select"
      /\ proc["poll"].pc = "GD_cached"
      /\ ~proc["poll"].gd.tickLogin
      /\ ~proc["poll"].gd.login

\* C33: every goroutine that reads or writes the cached list holds devicesMu,
\* every goroutine that reads or writes lastPoll holds pollMu, and no
\* goroutine reads the cached list while another writes it.
C33_AsStated ==
    /\ \A g \in Callers : (ReadsDevices(g) \/ WritesDevices(g)) => HoldsDevicesMu(g)
    /\ \A g \in Callers : (ReadsLastPoll(g) \/ WritesLastPoll(g)) => lk.pollMu = g
    /\ \A g, h \in Callers : ~(g # h /\ ReadsDevices(g) /\ WritesDevices(h))

\* C34: a command that arrives while the snapshot table has no row ends in an
\* error, without a request to the client and without the read of a field of
\* the missing state.
C34_AsStated ==
    (hm.cmd # NoCommand /\ hm.dbBefore = {})
        => (hm.result \notin {"panic", "ok"} /\ hm.req = NoReq)

\* C35: when a test of credentials has failed, the client holds the
\* credentials it held before the test, those saved at the server's start.
C35_AsStated ==
    (proc["web"].pc = "done" /\ proc["web"].ret # "ok")
        => (session.username = "user" /\ session.password = "secret")

\* C36: a call of GetDevices that leaves by the cache path returns a list
\* that is not empty.
C36_AsStated ==
    [][\A p \in Procs :
          (proc[p].pc = "GD_cached" /\ proc'[p].pc # "GD_cached")
              => proc'[p].out # <<>>]_vars

\* C37: while no call of updateState is in progress, the endpoint's attributes
\* are those of the adapter's currentState: the temperatures in hundredths of
\* a degree and the mapped system mode.
C37_AsStated ==
    NoPush =>
        /\ th.attrs.localTemperature = celsiusToMatter(th.currentState.currentTemp)
        /\ th.attrs.occupiedHeatingSetpoint = celsiusToMatter(th.currentState.heatSetpoint)
        /\ th.attrs.occupiedCoolingSetpoint = celsiusToMatter(th.currentState.coolSetpoint)
        /\ th.attrs.systemMode = systemModeToMatter(th.currentState.systemMode)

\* C38: a call of GetDevices on its cache path finds there a list that was
\* stored under the credentials the session holds now.
C38_AsStated ==
    \A p \in Procs :
       proc[p].pc = "GD_cached" => cachedFor = << session.username, session.password >>

\* C39: the row saved after a command that succeeded has the name the row of
\* that device had before the command.
C39_AsStated ==
    \A i \in 1..Len(hm.saved) :
       \A st \in hm.dbBefore :
          st.DeviceID = hm.saved[i].DeviceID => hm.saved[i].Name = st.Name

\* C40: no send channel of a client is closed twice, no message is sent on a
\* closed one, and the clients in the hub's map are those whose channel is
\* open.
C40_ClosedOnce ==
    /\ \A c \in Conns : hub.closes[c] <= 1
    /\ ~hub.sentClosed
    /\ \A c \in hub.clients : ~hub.closed[c]

\* a client was dropped on a full buffer, and its unregister came afterwards
C40_Witness ==
    \E c \in Conns :
       /\ hub.dropped[c]
       /\ hub.conn[c] = "gone"
       /\ hub.closes[c] = 1

====
